---- MODULE Spec2Model ----
(***************************************************************************)
(* Model of the IRRE toolchain core: the instruction codec, the object     *)
(* file container and the emulator's fetch-decode-execute loop.            *)
(*                                                                         *)
(* A 32-bit word is kept as its four base-256 digits <<b0, b1, b2, b3>>,   *)
(* b0 the least significant (the little-endian byte order of memory and of *)
(* the object file). All arithmetic on words is done on the digits and is  *)
(* modulo 2^32, as uint32_t arithmetic is.                                 *)
(***************************************************************************)
EXTENDS Integers, Sequences, FiniteSets, TLC

VARIABLES
    regs,               \* register_file::registers_  (37 words)
    mem,                \* memory::data_              (bytes)
    state,              \* vm_state::state
    instruction_count,  \* vm_state::instruction_count
    cycle_count,        \* vm_state::cycle_count
    on_error,           \* vm_state::on_error is set
    on_interrupt,       \* vm_state::on_interrupt is set
    on_device_access,   \* vm_state::on_device_access is set
    observers,          \* vm::observers_ (its length)
    console,            \* console_device::output_ of the registered console
    crashed,            \* the process died inside a call (undefined behaviour)
    call,               \* the last call of the vm's API: name, arguments, result, callbacks made
    cx,                 \* codec experiment: input and results of decode / encode
    ox                  \* object file experiment: input and results of to_binary / from_binary

vmvars == <<regs, mem, state, instruction_count, cycle_count, on_error, on_interrupt,
            on_device_access, observers, console, crashed, call>>
vars == <<regs, mem, state, instruction_count, cycle_count, on_error, on_interrupt,
          on_device_access, observers, console, crashed, call, cx, ox>>

-----------------------------------------------------------------------------
(* Words (uint32_t) as four bytes, little-endian.                          *)

\* the word of a natural number below 2^31
FromNat(n) == <<n % 256, (n \div 256) % 256, (n \div 65536) % 256, (n \div 16777216) % 256>>

\* the value of a word known to be below 2^31
ToNat(w) == w[1] + 256 * w[2] + 65536 * w[3] + 16777216 * w[4]

Zero32 == <<0, 0, 0, 0>>

\* w fits in 16 bits
IsSmall(w) == w[3] = 0 /\ w[4] = 0

Low16(w) == w[1] + 256 * w[2]

High16(w) == w[3] + 256 * w[4]

FromHalves(lo, hi) == <<lo % 256, lo \div 256, hi % 256, hi \div 256>>

\* a + b mod 2^32
Add32(a, b) ==
    LET lo == Low16(a) + Low16(b)
        hi == High16(a) + High16(b) + (lo \div 65536)
    IN  FromHalves(lo % 65536, hi % 65536)

\* ~a
Not32(a) == <<255 - a[1], 255 - a[2], 255 - a[3], 255 - a[4]>>

\* -a mod 2^32
Neg32(a) == Add32(Not32(a), FromNat(1))

\* a - b mod 2^32
Sub32(a, b) == Add32(a, Neg32(b))

\* a < b, unsigned
Lt32(a, b) ==
    \/ High16(a) < High16(b)
    \/ High16(a) = High16(b) /\ Low16(a) < Low16(b)

\* the sign bit of a word read as int32_t
IsNeg32(a) == a[4] >= 128

\* a < b, signed (int32_t)
Lts32(a, b) ==
    IF IsNeg32(a) # IsNeg32(b) THEN IsNeg32(a) ELSE Lt32(a, b)

\* a word compared with a size_t n (n below 2^31): w > n
GtSize(w, n) == w[4] >= 128 \/ ToNat(w) > n

\* a word compared with a size_t n (n below 2^31): w >= n
GeSize(w, n) == w[4] >= 128 \/ ToNat(w) >= n

RECURSIVE AndN(_, _)
AndN(a, b) == IF a = 0 \/ b = 0 THEN 0 ELSE (a % 2) * (b % 2) + 2 * AndN(a \div 2, b \div 2)

RECURSIVE OrN(_, _)
OrN(a, b) ==
    IF a = 0 THEN b ELSE IF b = 0 THEN a
    ELSE (IF a % 2 = 1 \/ b % 2 = 1 THEN 1 ELSE 0) + 2 * OrN(a \div 2, b \div 2)

RECURSIVE XorN(_, _)
XorN(a, b) ==
    IF a = 0 THEN b ELSE IF b = 0 THEN a
    ELSE (((a % 2) + (b % 2)) % 2) + 2 * XorN(a \div 2, b \div 2)

And32(a, b) == <<AndN(a[1], b[1]), AndN(a[2], b[2]), AndN(a[3], b[3]), AndN(a[4], b[4])>>

Or32(a, b) == <<OrN(a[1], b[1]), OrN(a[2], b[2]), OrN(a[3], b[3]), OrN(a[4], b[4])>>

Xor32(a, b) == <<XorN(a[1], b[1]), XorN(a[2], b[2]), XorN(a[3], b[3]), XorN(a[4], b[4])>>

\* a << 1 mod 2^32
Shl1(a) == Add32(a, a)

\* a << n mod 2^32 for n in 0..31: whole bytes first, then the bits within a byte
Shl32(a, n) ==
    LET q == n \div 8
        p == 2 ^ (n % 8)
        B(i) == IF i - q >= 1 THEN a[i - q] ELSE 0
    IN  <<(B(1) * p) % 256,
          ((B(2) * p) % 256) + ((B(1) * p) \div 256),
          ((B(3) * p) % 256) + ((B(2) * p) \div 256),
          ((B(4) * p) % 256) + ((B(3) * p) \div 256)>>

\* a >> n for n in 0..31, the vacated bits filled with the byte `fill` (0 or 255)
ShrFill(a, n, fill) ==
    LET q == n \div 8
        p == 2 ^ (n % 8)
        B(i) == IF i + q <= 4 THEN a[i + q] ELSE fill
    IN  <<(B(1) \div p) + ((B(2) % p) * (256 \div p)),
          (B(2) \div p) + ((B(3) % p) * (256 \div p)),
          (B(3) \div p) + ((B(4) % p) * (256 \div p)),
          (B(4) \div p) + ((B(5) % p) * (256 \div p))>>

\* a >> n, logical
Shr32(a, n) == ShrFill(a, n, 0)

\* a >> n, arithmetic (the sign bit is kept)
Sar32(a, n) == ShrFill(a, n, IF a[4] >= 128 THEN 255 ELSE 0)

\* a * b mod 2^32, by bytes
Mul32(a, b) ==
    LET P(i, j) == Shl32(FromNat(a[i] * b[j]), 8 * (i + j - 2))
        Row(i) ==
            IF i = 1 THEN Add32(Add32(P(1, 1), P(1, 2)), Add32(P(1, 3), P(1, 4)))
            ELSE IF i = 2 THEN Add32(Add32(P(2, 1), P(2, 2)), P(2, 3))
            ELSE IF i = 3 THEN Add32(P(3, 1), P(3, 2))
            ELSE P(4, 1)
    IN  Add32(Add32(Row(1), Row(2)), Add32(Row(3), Row(4)))


\* <<quotient, remainder>> of the unsigned division of a by d (d # 0). Below 2^31 the
\* numbers divide directly; a divisor with the top bit set goes into a at most once; a
\* dividend with the top bit set is divided as 2 * (a >> 1) + (a & 1).
DivMod32(a, d) ==
    IF d[4] >= 128 THEN
        IF Lt32(a, d) THEN <<Zero32, a>> ELSE <<FromNat(1), Sub32(a, d)>>
    ELSE IF a[4] < 128 THEN
        <<FromNat(ToNat(a) \div ToNat(d)), FromNat(ToNat(a) % ToNat(d))>>
    ELSE
        LET half == ToNat(Shr32(a, 1))
            q1 == FromNat(half \div ToNat(d))
            t == Add32(Shl1(FromNat(half % ToNat(d))), FromNat(a[1] % 2))
        IN  IF Lt32(t, d) THEN <<Shl1(q1), t>>
            ELSE <<Add32(Shl1(q1), FromNat(1)), Sub32(t, d)>>

\* b_val / c_val had it been the signed division, for a dividend with the top bit set
Div32_signed(a, d) ==
    IF a[4] >= 128 /\ d[4] < 128 THEN Neg32(DivMod32(Neg32(a), d)[1]) ELSE DivMod32(a, d)[1]

Div32(a, d) == DivMod32(a, d)[1]

Mod32(a, d) == DivMod32(a, d)[2]

\* static_cast<signed_word>(static_cast<int8_t>(b)) as a word
SignExtend8(b) == IF b >= 128 THEN <<b, 255, 255, 255>> ELSE <<b, 0, 0, 0>>

-----------------------------------------------------------------------------
(* Types and the opcode table (types.hpp).                                 *)

\* enum class opcode
opcode ==
    [nop |-> 0, add |-> 1, sub |-> 2, and_ |-> 3, orr |-> 4, xor_ |-> 5, not_ |-> 6,
     lsh |-> 7, ash |-> 8, tcu |-> 9, tcs |-> 10, set |-> 11, mov |-> 12,
     ldw |-> 13, stw |-> 14, ldb |-> 15, stb |-> 16,
     jmi |-> 32, jmp |-> 33, bve |-> 36, bvn |-> 37, cal |-> 42, ret |-> 43,
     mul |-> 48, div |-> 49, mod |-> 50,
     sia |-> 64, sup |-> 65, sxt |-> 66, seq |-> 67,
     int_ |-> 240, snd |-> 253, hlt |-> 255]

\* enum class reg: r0..r31 are 0..31, then the special registers
reg == [r0 |-> 0, r1 |-> 1, r2 |-> 2, r3 |-> 3, pc |-> 32, lr |-> 33, ad |-> 34, at |-> 35, sp |-> 36]

\* the slots of the register file
RegIndex == 0..reg.sp

\* get_opcode_info(op).fmt; an opcode the table does not hold gets format op
get_format(op) ==
    IF op \in {opcode.add, opcode.sub, opcode.and_, opcode.orr, opcode.xor_, opcode.lsh,
               opcode.ash, opcode.tcu, opcode.tcs, opcode.mul, opcode.div, opcode.mod,
               opcode.snd}
    THEN "op_reg_reg_reg"
    ELSE IF op \in {opcode.not_, opcode.mov, opcode.sxt} THEN "op_reg_reg"
    ELSE IF op \in {opcode.set, opcode.sup} THEN "op_reg_imm16"
    ELSE IF op \in {opcode.ldw, opcode.stw, opcode.ldb, opcode.stb, opcode.bve, opcode.bvn,
                    opcode.seq}
    THEN "op_reg_reg_imm8"
    ELSE IF op \in {opcode.jmi, opcode.int_} THEN "op_imm24"
    ELSE IF op \in {opcode.jmp, opcode.cal} THEN "op_reg"
    ELSE IF op = opcode.sia THEN "op_reg_imm8x2"
    ELSE "op"

-----------------------------------------------------------------------------
(* The instruction variants and their encode / decode (instruction.hpp).   *)
(* (w >> 24) & 0xff is digit 4 of the word, (w >> 16) & 0xff digit 3,      *)
(* (w >> 8) & 0xff digit 2 and w & 0xff digit 1.                           *)

inst_op_decode(w) == [variant |-> "inst_op", op |-> w[4]]

inst_op_encode(i) == <<0, 0, 0, i.op>>

inst_op_reg_decode(w) == [variant |-> "inst_op_reg", op |-> w[4], a |-> w[3]]

inst_op_reg_encode(i) == <<0, 0, i.a, i.op>>

\* addr is a uint32_t field: w & 0xffffff
inst_op_imm24_decode(w) == [variant |-> "inst_op_imm24", op |-> w[4], addr |-> <<w[1], w[2], w[3], 0>>]

\* (op << 24) | (addr & 0xffffff)
inst_op_imm24_encode(i) == <<i.addr[1], i.addr[2], i.addr[3], i.op>>

\* inst_op_reg_imm16::decode had it read the immediate high byte first
inst_op_reg_imm16_decode_big_endian(w) ==
    [variant |-> "inst_op_reg_imm16", op |-> w[4], a |-> w[3], imm |-> w[2] + 256 * w[1]]

\* imm is a uint16_t field
inst_op_reg_imm16_decode(w) ==
    [variant |-> "inst_op_reg_imm16", op |-> w[4], a |-> w[3], imm |-> w[1] + 256 * w[2]]

inst_op_reg_imm16_encode(i) == <<i.imm % 256, i.imm \div 256, i.a, i.op>>

inst_op_reg_reg_decode(w) == [variant |-> "inst_op_reg_reg", op |-> w[4], a |-> w[3], b |-> w[2]]

\* inst_op_reg_reg::encode had it put the two registers in each other's slot
inst_op_reg_reg_encode_swapped(i) == <<0, i.a, i.b, i.op>>

inst_op_reg_reg_encode(i) == <<0, i.b, i.a, i.op>>

inst_op_reg_reg_imm8_decode(w) ==
    [variant |-> "inst_op_reg_reg_imm8", op |-> w[4], a |-> w[3], b |-> w[2], offset |-> w[1]]

inst_op_reg_reg_imm8_encode(i) == <<i.offset, i.b, i.a, i.op>>

inst_op_reg_imm8x2_decode(w) ==
    [variant |-> "inst_op_reg_imm8x2", op |-> w[4], a |-> w[3], v0 |-> w[2], v1 |-> w[1]]

inst_op_reg_imm8x2_encode(i) == <<i.v1, i.v0, i.a, i.op>>

inst_op_reg_reg_reg_decode(w) ==
    [variant |-> "inst_op_reg_reg_reg", op |-> w[4], a |-> w[3], b |-> w[2], c |-> w[1]]

inst_op_reg_reg_reg_encode(i) == <<i.c, i.b, i.a, i.op>>

-----------------------------------------------------------------------------
(* The codec (encoding.hpp).                                               *)

\* codec::encode: std::visit of the variant's own encode
codec_encode(i) ==
    CASE i.variant = "inst_op" -> inst_op_encode(i)
      [] i.variant = "inst_op_reg" -> inst_op_reg_encode(i)
      [] i.variant = "inst_op_imm24" -> inst_op_imm24_encode(i)
      [] i.variant = "inst_op_reg_imm16" -> inst_op_reg_imm16_encode(i)
      [] i.variant = "inst_op_reg_reg" -> inst_op_reg_reg_encode(i)
      [] i.variant = "inst_op_reg_reg_imm8" -> inst_op_reg_reg_imm8_encode(i)
      [] i.variant = "inst_op_reg_imm8x2" -> inst_op_reg_imm8x2_encode(i)
      [] i.variant = "inst_op_reg_reg_reg" -> inst_op_reg_reg_reg_encode(i)

Ok(v) == [ok |-> TRUE, value |-> v]

Err(e) == [ok |-> FALSE, error |-> e]

\* validate_reg had it let the value after sp through
validate_reg_past_sp(reg_val) == reg_val <= reg.sp + 1

\* the lambda validate_reg of codec::decode
validate_reg(reg_val) == reg_val <= reg.sp

\* codec::decode
codec_decode(w) ==
    LET op == w[4]
        a1 == w[3]
        a2 == w[2]
        a3 == w[1]
        fmt == get_format(op)
    IN  IF fmt = "op" /\ op # opcode.nop /\ op # opcode.ret /\ op # opcode.hlt
        THEN Err("invalid_opcode")
        ELSE CASE fmt = "op" -> Ok(inst_op_decode(w))
               [] fmt = "op_reg" ->
                    IF ~validate_reg(a1) THEN Err("invalid_register")
                    ELSE Ok(inst_op_reg_decode(w))
               [] fmt = "op_imm24" -> Ok(inst_op_imm24_decode(w))
               [] fmt = "op_reg_imm16" ->
                    IF ~validate_reg(a1) THEN Err("invalid_register")
                    ELSE Ok(inst_op_reg_imm16_decode(w))
               [] fmt = "op_reg_reg" ->
                    IF ~validate_reg(a1) \/ ~validate_reg(a2) THEN Err("invalid_register")
                    ELSE Ok(inst_op_reg_reg_decode(w))
               [] fmt = "op_reg_reg_imm8" ->
                    IF ~validate_reg(a1) \/ ~validate_reg(a2) THEN Err("invalid_register")
                    ELSE Ok(inst_op_reg_reg_imm8_decode(w))
               [] fmt = "op_reg_imm8x2" ->
                    IF ~validate_reg(a1) THEN Err("invalid_register")
                    ELSE Ok(inst_op_reg_imm8x2_decode(w))
               [] fmt = "op_reg_reg_reg" ->
                    IF ~validate_reg(a1) \/ ~validate_reg(a2) \/ ~validate_reg(a3)
                    THEN Err("invalid_register")
                    ELSE Ok(inst_op_reg_reg_reg_decode(w))

\* codec::encode_bytes: the word's bytes, low byte first
encode_bytes(i) == LET w == codec_encode(i) IN <<w[1], w[2], w[3], w[4]>>

-----------------------------------------------------------------------------
(* Bounds of the model.                                                    *)

\* bytes of vm memory (the constructor's memory_size; 1 MiB by default)
MemSize == 12

\* observers the harness installs at most
MaxObservers == 2

\* largest max_instructions handed to run
MaxRun == 3

\* steps a run(0) may take before the model stops following it
RunFuel == 4

\* instructions a vm executes at most before the harness stops calling step and run
MaxInstr == 4

\* What an access outside the vector's storage, or a shift by the full width, may
\* give in a build: the process dies, or the access yields some value.
UBWords == {Zero32, <<255, 255, 255, 255>>}

UBChoices == {[crash |-> TRUE, val |-> Zero32]} \cup {[crash |-> FALSE, val |-> v] : v \in UBWords}

-----------------------------------------------------------------------------
(* Memory (memory.hpp). mem is data_, a function on 0..MemSize-1.          *)

\* memory::is_valid_range: addr + size <= data_.size(), computed in size_t
is_valid_range(addr, size) == addr[4] < 128 /\ ToNat(addr) + size <= MemSize

\* the index addr + k of data_[addr + k]: uint32_t arithmetic
Index(addr, k) == Add32(addr, FromNat(k))

\* the index lies outside the vector
OutOfBounds(idx) == GeSize(idx, MemSize)

\* memory::read_word. addr + 4 is uint32_t arithmetic: it wraps for addr >= 2^32 - 4.
\* thrown: std::out_of_range; ub: some data_[i] read lies outside the vector.
read_word(m, addr, u) ==
    IF GtSize(Add32(addr, FromNat(4)), MemSize)
    THEN [thrown |-> TRUE, ub |-> FALSE, value |-> Zero32]
    ELSE LET b(k) == IF OutOfBounds(Index(addr, k)) THEN u.val[k + 1]
                     ELSE m[ToNat(Index(addr, k))]
         IN  [thrown |-> FALSE,
              ub |-> \E k \in 0..3 : OutOfBounds(Index(addr, k)),
              value |-> <<b(0), b(1), b(2), b(3)>>]

\* memory::write_word. A write outside the vector that does not kill the process
\* lands outside data_; the writes at wrapped indices land in data_.
write_word(m, addr, value) ==
    IF GtSize(Add32(addr, FromNat(4)), MemSize)
    THEN [thrown |-> TRUE, ub |-> FALSE, mem |-> m]
    ELSE LET hit(i) == {k \in 0..3 : ~OutOfBounds(Index(addr, k)) /\ ToNat(Index(addr, k)) = i}
         IN  [thrown |-> FALSE,
              ub |-> \E k \in 0..3 : OutOfBounds(Index(addr, k)),
              mem |-> [i \in DOMAIN m |->
                         IF hit(i) = {} THEN m[i] ELSE value[(CHOOSE k \in hit(i) : TRUE) + 1]]]

\* memory::read_byte
read_byte(m, addr) ==
    IF GeSize(addr, MemSize) THEN [thrown |-> TRUE, value |-> 0]
    ELSE [thrown |-> FALSE, value |-> m[ToNat(addr)]]

\* memory::write_byte
write_byte(m, addr, value) ==
    IF GeSize(addr, MemSize) THEN [thrown |-> TRUE, mem |-> m]
    ELSE [thrown |-> FALSE, mem |-> [m EXCEPT ![ToNat(addr)] = value]]

\* memory::clear
memory_clear == [i \in 0..(MemSize - 1) |-> 0]

\* memory::load_data (the caller has checked that the data fits)
load_data(m, addr, data) ==
    [i \in DOMAIN m |-> IF i >= addr /\ i < addr + Len(data) THEN data[i - addr + 1] ELSE m[i]]

-----------------------------------------------------------------------------
(* Devices (devices.hpp). console is console_device::output_.              *)

\* handle_command had it switched on the low byte of the command
handle_command_low_byte(output, command, argument) ==
    IF command[1] = 0 THEN <<<<1, 0, 0, 0>>, Append(output, argument[1])>>
    ELSE IF command[1] = 2 THEN <<<<1, 0, 0, 0>>, <<>>>>
    ELSE <<<<0, 0, 0, 0>>, output>>

\* console_device::handle_command: <<result, output_ afterwards>>
handle_command(output, command, argument) ==
    IF command = Zero32 THEN <<FromNat(1), Append(output, argument[1])>>
    ELSE IF command = FromNat(2) THEN <<FromNat(1), <<>>>>
    ELSE <<Zero32, output>>

\* device_registry::access_device with the console registered as device_ids::console
access_device(output, device_id, command, argument) ==
    IF device_id = Zero32 THEN handle_command(output, command, argument)
    ELSE <<Zero32, output>>

-----------------------------------------------------------------------------
(* VM state (state.hpp) and the execution visitor (execution_visitor.hpp). *)
(* An execution record x holds what one step works on:                     *)
(*   regs, mem, state, console  the machine                                *)
(*   events      the callbacks made so far, in order                       *)
(*   pc_writes   the values the instruction wrote to the pc register       *)
(*   crashed     the process died                                          *)

\* error_info(runtime_error t, address addr)
error_info2(t, addr) == [type |-> t, pc |-> addr, instruction_word |-> Zero32, message |-> ""]

\* error_info(runtime_error t, address addr, word inst_word, const std::string& msg)
error_info4(t, addr, inst_word, msg) ==
    [type |-> t, pc |-> addr, instruction_word |-> inst_word, message |-> msg]

\* vm_state::error(const error_info&)
state_error(x, err) ==
    [x EXCEPT !.state = "error",
              !.events = IF on_error THEN Append(@, [cb |-> "on_error", info |-> err]) ELSE @]

\* vm_state::error(runtime_error err): the error_info carries registers.pc()
state_error_simple(x, t) == state_error(x, error_info2(t, x.regs[reg.pc]))

\* register_file::write
reg_write(x, r, value) ==
    [x EXCEPT !.regs[r] = value,
              !.pc_writes = IF r = reg.pc THEN @ \cup {value} ELSE @]

\* vm_state::interrupt
state_interrupt(x, code) ==
    [x EXCEPT !.events = IF on_interrupt THEN Append(@, [cb |-> "on_interrupt", code |-> code])
                         ELSE @]

\* vm_state::device_access: <<result, x afterwards>>
device_access(x, device_id, command, argument) ==
    IF on_device_access
    THEN LET r == access_device(x.console, device_id, command, argument)
         IN  <<r[1], [x EXCEPT !.console = r[2],
                               !.events = Append(@, [cb |-> "on_device_access",
                                                     device_id |-> device_id,
                                                     command |-> command,
                                                     argument |-> argument])]>>
    ELSE <<Zero32, x>>

\* execution_visitor::notify_memory_read / notify_memory_write: every observer in turn
notify_memory(x, cb, addr, value) ==
    [x EXCEPT !.events = @ \o [k \in 1..observers |->
                                 [cb |-> cb, observer |-> k, addr |-> addr, value |-> value]]]

\* the process dies
crash(x) == [x EXCEPT !.crashed = TRUE]

\* operator()(const inst_op&)
exec_op(x, inst) ==
    CASE inst.op = opcode.nop -> x
      [] inst.op = opcode.ret ->
            reg_write(reg_write(x, reg.pc, x.regs[reg.lr]), reg.lr, Zero32)
      [] inst.op = opcode.hlt -> [x EXCEPT !.state = "halted"]
      [] OTHER -> state_error_simple(x, "invalid_instruction")

\* operator()(const inst_op_reg&)
exec_op_reg(x, inst) ==
    CASE inst.op = opcode.jmp -> reg_write(x, reg.pc, x.regs[inst.a])
      [] inst.op = opcode.cal ->
            LET x1 == reg_write(x, reg.lr, Add32(x.regs[reg.pc], FromNat(4)))
            IN  reg_write(x1, reg.pc, x1.regs[inst.a])
      [] OTHER -> state_error_simple(x, "invalid_instruction")

\* operator()(const inst_op_imm24&)
exec_op_imm24(x, inst) ==
    CASE inst.op = opcode.jmi -> reg_write(x, reg.pc, inst.addr)
      [] inst.op = opcode.int_ -> state_interrupt(x, inst.addr)
      [] OTHER -> state_error_simple(x, "invalid_instruction")

\* operator()(const inst_op_reg_imm16&)
exec_op_reg_imm16(x, inst) ==
    CASE inst.op = opcode.set -> reg_write(x, inst.a, <<inst.imm % 256, inst.imm \div 256, 0, 0>>)
      [] inst.op = opcode.sup ->
            LET current == x.regs[inst.a]
            IN  reg_write(x, inst.a, <<current[1], current[2], inst.imm % 256, inst.imm \div 256>>)
      [] OTHER -> state_error_simple(x, "invalid_instruction")

\* operator()(const inst_op_reg_reg&)
exec_op_reg_reg(x, inst) ==
    CASE inst.op = opcode.mov -> reg_write(x, inst.a, x.regs[inst.b])
      [] inst.op = opcode.not_ -> reg_write(x, inst.a, Not32(x.regs[inst.b]))
      [] inst.op = opcode.sxt ->
            LET value == x.regs[inst.b]
            IN  reg_write(x, inst.a,
                          IF value[2] >= 128 THEN <<value[1], value[2], 255, 255>>
                          ELSE <<value[1], value[2], 0, 0>>)
      [] OTHER -> state_error_simple(x, "invalid_instruction")

\* the address rB + static_cast<signed_word>(static_cast<int8_t>(offset))
effective_address(x, inst) == Add32(x.regs[inst.b], SignExtend8(inst.offset))

\* operator()(const inst_op_reg_reg_imm8&)
exec_op_reg_reg_imm8(x, inst, u) ==
    CASE inst.op = opcode.ldw ->
            LET addr == effective_address(x, inst)
                r == read_word(x.mem, addr, u)
            IN  IF r.thrown THEN state_error_simple(x, "invalid_memory_access")
                ELSE IF r.ub /\ u.crash THEN crash(x)
                ELSE reg_write(notify_memory(x, "on_memory_read", addr, r.value), inst.a, r.value)
      [] inst.op = opcode.stw ->
            LET addr == effective_address(x, inst)
                value == x.regs[inst.a]
                r == write_word(x.mem, addr, value)
            IN  IF r.thrown THEN state_error_simple(x, "invalid_memory_access")
                ELSE IF r.ub /\ u.crash THEN crash(x)
                ELSE notify_memory([x EXCEPT !.mem = r.mem], "on_memory_write", addr, value)
      [] inst.op = opcode.ldb ->
            LET addr == effective_address(x, inst)
                r == read_byte(x.mem, addr)
                value == <<r.value, 0, 0, 0>>
            IN  IF r.thrown THEN state_error_simple(x, "invalid_memory_access")
                ELSE reg_write(notify_memory(x, "on_memory_read", addr, value), inst.a, value)
      [] inst.op = opcode.stb ->
            LET addr == effective_address(x, inst)
                byte_value == x.regs[inst.a][1]
                r == write_byte(x.mem, addr, byte_value)
            IN  IF r.thrown THEN state_error_simple(x, "invalid_memory_access")
                ELSE notify_memory([x EXCEPT !.mem = r.mem], "on_memory_write", addr,
                                   <<byte_value, 0, 0, 0>>)
      [] inst.op = opcode.bve ->
            IF x.regs[inst.b] = <<inst.offset, 0, 0, 0>>
            THEN reg_write(x, reg.pc, x.regs[inst.a]) ELSE x
      [] inst.op = opcode.bvn ->
            IF x.regs[inst.b] # <<inst.offset, 0, 0, 0>>
            THEN reg_write(x, reg.pc, x.regs[inst.a]) ELSE x
      [] inst.op = opcode.seq ->
            reg_write(x, inst.a,
                      IF x.regs[inst.b] = <<inst.offset, 0, 0, 0>> THEN FromNat(1) ELSE Zero32)
      [] OTHER -> state_error_simple(x, "invalid_instruction")

\* a shift by the full width or more: the count taken mod 32, or all bits shifted out
shift_ub(plain, out, u) == IF u.val = Zero32 THEN out ELSE plain

\* operator()(const inst_op_reg_imm8x2&)
exec_op_reg_imm8x2(x, inst, u) ==
    CASE inst.op = opcode.sia ->
            LET current == x.regs[inst.a]
                v0 == <<inst.v0, 0, 0, 0>>
                shifted == IF inst.v1 >= 32 THEN shift_ub(Shl32(v0, inst.v1 % 32), Zero32, u)
                           ELSE Shl32(v0, inst.v1)
            IN  reg_write(x, inst.a, Add32(current, shifted))
      [] OTHER -> state_error_simple(x, "invalid_instruction")

\* the range check had it refused a shift by the full width
shift_out_of_range_at_width(c_val) ==
    IF IsNeg32(c_val) THEN GtSize(Neg32(c_val), 31) ELSE GtSize(c_val, 31)

\* static_cast<signed_word>(c_val) lies outside [-32, 32]
shift_out_of_range(c_val) ==
    IF IsNeg32(c_val) THEN GtSize(Neg32(c_val), 32) ELSE GtSize(c_val, 32)

\* the lsh case
exec_lsh(x, inst, b_val, c_val, u) ==
    IF shift_out_of_range(c_val) THEN state_error_simple(x, "invalid_instruction")
    ELSE IF ~IsNeg32(c_val)
    THEN reg_write(x, inst.a,
                   IF ToNat(c_val) = 32 THEN shift_ub(b_val, Zero32, u)
                   ELSE Shl32(b_val, ToNat(c_val)))
    ELSE reg_write(x, inst.a,
                   IF ToNat(Neg32(c_val)) = 32 THEN shift_ub(b_val, Zero32, u)
                   ELSE Shr32(b_val, ToNat(Neg32(c_val))))

\* the ash case
exec_ash(x, inst, b_val, c_val, u) ==
    IF shift_out_of_range(c_val) THEN state_error_simple(x, "invalid_instruction")
    ELSE IF ~IsNeg32(c_val)
    THEN reg_write(x, inst.a,
                   IF ToNat(c_val) = 32 THEN shift_ub(b_val, Zero32, u)
                   ELSE Shl32(b_val, ToNat(c_val)))
    ELSE reg_write(x, inst.a,
                   IF ToNat(Neg32(c_val)) = 32 THEN shift_ub(b_val, Sar32(b_val, 31), u)
                   ELSE Sar32(b_val, ToNat(Neg32(c_val))))

\* operator()(const inst_op_reg_reg_reg&)
exec_op_reg_reg_reg(x, inst, u) ==
    LET b_val == x.regs[inst.b]
        c_val == x.regs[inst.c]
    IN  CASE inst.op = opcode.add -> reg_write(x, inst.a, Add32(b_val, c_val))
          [] inst.op = opcode.sub -> reg_write(x, inst.a, Sub32(b_val, c_val))
          [] inst.op = opcode.mul -> reg_write(x, inst.a, Mul32(b_val, c_val))
          [] inst.op = opcode.div ->
                IF c_val = Zero32 THEN state_error_simple(x, "division_by_zero")
                ELSE reg_write(x, inst.a, Div32(b_val, c_val))
          [] inst.op = opcode.mod ->
                IF c_val = Zero32 THEN state_error_simple(x, "division_by_zero")
                ELSE reg_write(x, inst.a, Mod32(b_val, c_val))
          [] inst.op = opcode.and_ -> reg_write(x, inst.a, And32(b_val, c_val))
          [] inst.op = opcode.orr -> reg_write(x, inst.a, Or32(b_val, c_val))
          [] inst.op = opcode.xor_ -> reg_write(x, inst.a, Xor32(b_val, c_val))
          [] inst.op = opcode.lsh -> exec_lsh(x, inst, b_val, c_val, u)
          [] inst.op = opcode.ash -> exec_ash(x, inst, b_val, c_val, u)
          [] inst.op = opcode.tcu ->
                reg_write(x, inst.a,
                          IF Lt32(b_val, c_val) THEN <<255, 255, 255, 255>>
                          ELSE IF Lt32(c_val, b_val) THEN FromNat(1) ELSE Zero32)
          [] inst.op = opcode.tcs ->
                reg_write(x, inst.a,
                          IF Lts32(b_val, c_val) THEN <<255, 255, 255, 255>>
                          ELSE IF Lts32(c_val, b_val) THEN FromNat(1) ELSE Zero32)
          [] inst.op = opcode.snd ->
                LET r == device_access(x, x.regs[inst.a], x.regs[inst.b], x.regs[inst.c])
                IN  reg_write(r[2], inst.c, r[1])
          [] OTHER -> state_error_simple(x, "invalid_instruction")

\* execution_visitor::operator()(const instruction&): std::visit on the variant
visit(x, inst, u) ==
    CASE inst.variant = "inst_op" -> exec_op(x, inst)
      [] inst.variant = "inst_op_reg" -> exec_op_reg(x, inst)
      [] inst.variant = "inst_op_imm24" -> exec_op_imm24(x, inst)
      [] inst.variant = "inst_op_reg_imm16" -> exec_op_reg_imm16(x, inst)
      [] inst.variant = "inst_op_reg_reg" -> exec_op_reg_reg(x, inst)
      [] inst.variant = "inst_op_reg_reg_imm8" -> exec_op_reg_reg_imm8(x, inst, u)
      [] inst.variant = "inst_op_reg_imm8x2" -> exec_op_reg_imm8x2(x, inst, u)
      [] inst.variant = "inst_op_reg_reg_reg" -> exec_op_reg_reg_reg(x, inst, u)

-----------------------------------------------------------------------------
(* The vm (vm.hpp). A machine record m holds regs, mem, state, console,    *)
(* instruction_count and cycle_count.                                      *)

Machine ==
    [regs |-> regs, mem |-> mem, state |-> state, console |-> console,
     instruction_count |-> instruction_count, cycle_count |-> cycle_count]

\* the pre_execute / post_execute calls, one per observer in list order; count is the
\* instruction_count the observer would read during the call
notify_execute(cb, pc, raw, count) ==
    [k \in 1..observers |->
        [cb |-> cb, observer |-> k, pc |-> pc, raw_instruction |-> raw, count |-> count]]

\* what a step returns to its caller: the machine and the step's result
step_result(m, x, ret) ==
    [regs |-> x.regs, mem |-> x.mem, state |-> x.state, console |-> x.console,
     instruction_count |-> m.instruction_count, cycle_count |-> m.cycle_count,
     events |-> x.events, pc_writes |-> x.pc_writes, crashed |-> x.crashed, ret |-> ret]

\* step had it counted only the instructions that leave the vm running
inc_instruction_count_while_running(r) ==
    IF r.state = "running"
    THEN [r EXCEPT !.instruction_count = @ + 1, !.cycle_count = @ + 1]
    ELSE r

\* vm_state::inc_instruction_count
inc_instruction_count(r) ==
    [r EXCEPT !.instruction_count = @ + 1, !.cycle_count = @ + 1]

\* the execution record a step starts with
step_start(m) ==
    [regs |-> m.regs, mem |-> m.mem, state |-> m.state, console |-> m.console,
     events |-> <<>>, pc_writes |-> {}, crashed |-> FALSE]

\* step's tail had it counted the instruction before the post_execute calls
step_finish_counting_first(m, x, pc, instruction_word) ==
    LET next_pc == Add32(pc, FromNat(4))
        x1 == IF x.regs[reg.pc] = pc /\ x.state = "running"
              THEN [x EXCEPT !.regs[reg.pc] = next_pc] ELSE x
        r1 == inc_instruction_count(step_result(m, x1, FALSE))
        r2 == [r1 EXCEPT !.events =
                  @ \o notify_execute("post_execute", pc, instruction_word,
                                      r1.instruction_count)]
    IN  [r2 EXCEPT !.ret = (r2.state = "running")]

\* step's tail had it advanced the pc after every dispatch
step_finish_always_advancing(m, x, pc, instruction_word) ==
    LET next_pc == Add32(pc, FromNat(4))
        x1 == [x EXCEPT !.regs[reg.pc] = next_pc]
        r1 == step_result(m, x1, FALSE)
        r2 == [r1 EXCEPT !.events =
                  @ \o notify_execute("post_execute", pc, instruction_word,
                                      r1.instruction_count)]
        r3 == inc_instruction_count(r2)
    IN  [r3 EXCEPT !.ret = (r3.state = "running")]

\* the part of vm::step that follows the dispatch: advance pc when the dispatch left it
\* and the vm running, post_execute, count, return is_running()
step_finish(m, x, pc, instruction_word) ==
    LET next_pc == Add32(pc, FromNat(4))
        x1 == IF x.regs[reg.pc] = pc /\ x.state = "running"
              THEN [x EXCEPT !.regs[reg.pc] = next_pc] ELSE x
        r1 == step_result(m, x1, FALSE)
        r2 == [r1 EXCEPT !.events =
                  @ \o notify_execute("post_execute", pc, instruction_word,
                                      r1.instruction_count)]
        r3 == inc_instruction_count(r2)
    IN  [r3 EXCEPT !.ret = (r3.state = "running")]

\* vm::step once the vm is known to be running: fetch, decode, pre_execute, dispatch
step_running(m, u) ==
    LET x0 == step_start(m)
        pc == m.regs[reg.pc]
    IN  IF pc[1] % 4 # 0
        THEN step_result(m, state_error(x0, error_info4("misaligned_instruction", pc, Zero32,
                                        "instruction fetch at unaligned address")), FALSE)
        ELSE IF ~is_valid_range(pc, 4)
        THEN step_result(m, state_error(x0, error_info2("invalid_memory_access", pc)), FALSE)
        ELSE LET instruction_word == read_word(m.mem, pc, u).value
                 decode_result == codec_decode(instruction_word)
             IN  IF ~decode_result.ok
                 THEN step_result(m, state_error(x0, error_info4("invalid_instruction", pc,
                                                 instruction_word, "invalid instruction")), FALSE)
                 ELSE LET x1 == [x0 EXCEPT !.events =
                                    notify_execute("pre_execute", pc, instruction_word,
                                                   m.instruction_count)]
                          x2 == visit(x1, decode_result.value, u)
                      IN  IF x2.crashed THEN step_result(m, x2, FALSE)
                          ELSE step_finish(m, x2, pc, instruction_word)

\* step had it not looked at the execution state first
step_ignoring_state(m, u) == step_running(m, u)

\* vm::step
step(m, u) ==
    IF m.state # "running" THEN step_result(m, step_start(m), FALSE)
    ELSE step_running(m, u)

\* the machine of a result
machine_of(r) ==
    [regs |-> r.regs, mem |-> r.mem, state |-> r.state, console |-> r.console,
     instruction_count |-> r.instruction_count, cycle_count |-> r.cycle_count]

\* run's test had it compared with > in place of >=
run_limit_passed(count, max_instructions) ==
    max_instructions > 0 /\ count + 1 > max_instructions

\* the test of vm::run's loop after a step that returned true: ++count reaches the limit
run_limit_reached(count, max_instructions) ==
    max_instructions > 0 /\ count + 1 >= max_instructions

\* the loop of vm::run from machine m with `count` steps counted and the callbacks made
\* so far: the set of results the call can return with (or die with). A run that takes
\* more than `fuel` further steps is not followed.
RECURSIVE run_loop(_, _, _, _, _)
run_loop(m, events, count, max_instructions, fuel) ==
    UNION {
        IF s.crashed \/ ~s.ret THEN {[s EXCEPT !.events = events \o s.events]}
        ELSE IF run_limit_reached(count, max_instructions)
        THEN {[s EXCEPT !.events = events \o s.events]}
        ELSE IF fuel = 0 THEN {}
        ELSE run_loop(machine_of(s), events \o s.events, count + 1, max_instructions, fuel - 1)
        : s \in {step(m, u) : u \in UBChoices} }

\* vm::run
run(m, max_instructions) ==
    run_loop(m, <<>>, 0, max_instructions,
             IF max_instructions > 0 THEN max_instructions ELSE RunFuel)

-----------------------------------------------------------------------------
(* Inputs of the vm's harness.                                             *)

\* console output bytes the harness lets accumulate
MaxOutput == 2

\* namespace make
make_op(op) == [variant |-> "inst_op", op |-> op]

make_op_reg(op, a) == [variant |-> "inst_op_reg", op |-> op, a |-> a]

make_op_imm24(op, addr) == [variant |-> "inst_op_imm24", op |-> op, addr |-> addr]

make_op_reg_imm16(op, a, imm) == [variant |-> "inst_op_reg_imm16", op |-> op, a |-> a, imm |-> imm]

make_op_reg_reg(op, a, b) == [variant |-> "inst_op_reg_reg", op |-> op, a |-> a, b |-> b]

make_op_reg_reg_imm8(op, a, b, offset) ==
    [variant |-> "inst_op_reg_reg_imm8", op |-> op, a |-> a, b |-> b, offset |-> offset]

make_op_reg_imm8x2(op, a, v0, v1) ==
    [variant |-> "inst_op_reg_imm8x2", op |-> op, a |-> a, v0 |-> v0, v1 |-> v1]

make_op_reg_reg_reg(op, a, b, c) ==
    [variant |-> "inst_op_reg_reg_reg", op |-> op, a |-> a, b |-> b, c |-> c]

\* jumps, whose behaviour depends on where they are loaded
JumpPool ==
    {make_op_imm24(opcode.jmi, Zero32), make_op_imm24(opcode.jmi, FromNat(4)),
     make_op_reg(opcode.jmp, reg.r1), make_op_reg(opcode.jmp, reg.pc),
     make_op_reg(opcode.cal, reg.r1), make_op(opcode.ret),
     make_op_reg_reg_imm8(opcode.bve, reg.r1, reg.r0, 0),
     make_op_reg_reg_imm8(opcode.bvn, reg.r1, reg.r0, 0),
     make_op_reg_reg(opcode.mov, reg.pc, reg.r1)}

\* the other instructions the harness loads
InstPool ==
    {make_op(opcode.nop), make_op(opcode.hlt),
     make_op_imm24(opcode.int_, FromNat(5)),
     make_op_reg_imm16(opcode.set, reg.r2, 65535), make_op_reg_imm16(opcode.sup, reg.r2, 4660),
     make_op_reg_reg(opcode.not_, reg.r2, reg.r1), make_op_reg_reg(opcode.sxt, reg.r2, reg.r1),
     make_op_reg_reg_imm8(opcode.ldw, reg.r2, reg.r1, 0),
     make_op_reg_reg_imm8(opcode.ldw, reg.r2, reg.r1, 255),
     make_op_reg_reg_imm8(opcode.stw, reg.r2, reg.r1, 0),
     make_op_reg_reg_imm8(opcode.stw, reg.r2, reg.r1, 255),
     make_op_reg_reg_imm8(opcode.ldb, reg.r2, reg.r1, 0),
     make_op_reg_reg_imm8(opcode.ldb, reg.r2, reg.r1, 255),
     make_op_reg_reg_imm8(opcode.stb, reg.r2, reg.r1, 0),
     make_op_reg_reg_imm8(opcode.stb, reg.r2, reg.r1, 255),
     make_op_reg_reg_imm8(opcode.seq, reg.r2, reg.r1, 4),
     make_op_reg_imm8x2(opcode.sia, reg.r2, 3, 4),
     make_op_reg_reg_reg(opcode.add, reg.r2, reg.r2, reg.r1),
     make_op_reg_reg_reg(opcode.sub, reg.r2, reg.r2, reg.r1),
     make_op_reg_reg_reg(opcode.mul, reg.r2, reg.r2, reg.r1),
     make_op_reg_reg_reg(opcode.div, reg.r2, reg.r2, reg.r1),
     make_op_reg_reg_reg(opcode.mod, reg.r2, reg.r2, reg.r1),
     make_op_reg_reg_reg(opcode.and_, reg.r2, reg.r2, reg.r1),
     make_op_reg_reg_reg(opcode.orr, reg.r2, reg.r2, reg.r1),
     make_op_reg_reg_reg(opcode.xor_, reg.r2, reg.r2, reg.r1),
     make_op_reg_reg_reg(opcode.lsh, reg.r2, reg.r2, reg.r1),
     make_op_reg_reg_reg(opcode.ash, reg.r2, reg.r2, reg.r1),
     make_op_reg_reg_reg(opcode.tcu, reg.r2, reg.r2, reg.r1),
     make_op_reg_reg_reg(opcode.tcs, reg.r2, reg.r2, reg.r1),
     make_op_reg_reg_reg(opcode.snd, reg.r0, reg.r0, reg.r2)}

\* words that do not decode: an opcode the table lacks, a register above sp
BadWords == {<<0, 0, 0, 17>>, <<0, 0, 37, 33>>}

\* load_binary's arguments: the program bytes and start_addr
BinaryInputs ==
    {<<encode_bytes(i), 0>> : i \in InstPool \cup JumpPool}
    \cup {<<encode_bytes(i), 4>> : i \in JumpPool}
    \cup {<<w, 0>> : w \in BadWords}
    \cup {<<encode_bytes(make_op(opcode.nop)), 2>>}

\* load_program's argument
ObjectInputs ==
    {[entry_offset |-> Zero32,
      code |-> encode_bytes(make_op(opcode.nop)) \o encode_bytes(make_op(opcode.hlt)),
      data |-> <<170, 187>>],
     [entry_offset |-> FromNat(4),
      code |-> encode_bytes(make_op_imm24(opcode.jmi, FromNat(4)))
               \o encode_bytes(make_op_imm24(opcode.jmi, Zero32)),
      data |-> <<>>],
     [entry_offset |-> FromNat(MemSize), code |-> <<>>, data |-> <<>>]}

\* set_register's arguments
RegisterInputs ==
    {<<reg.r1, v>> : v \in {FromNat(4), FromNat(MemSize - 2), <<255, 255, 255, 255>>,
                            FromNat(32), FromNat(33),
                            Neg32(FromNat(32)), Neg32(FromNat(33))}}
    \cup {<<reg.r2, v>> : v \in {<<68, 51, 34, 145>>}}

\* run's argument
RunInputs == 0..MaxRun

-----------------------------------------------------------------------------
(* The calls of the vm's API as actions.                                   *)

\* the record of a call that makes no callback
plain_call(name) == [name |-> name]

\* register_file::clear
registers_clear == [r \in RegIndex |-> Zero32]

\* The harness drives the vm the way irre_emu's main and the tests do: on the fresh vm it
\* installs the handlers (device, error, interrupt, in main's order, stopping anywhere)
\* and then observers, presets registers, loads, then steps and runs, and resets before
\* it loads again. CallOrder ranks the calls of the set-up.
CallOrder(name) ==
    CASE name = "vm" -> 0
      [] name = "on_device_access" -> 1
      [] name = "on_error" -> 2
      [] name = "on_interrupt" -> 3
      [] name \in {"add_observer", "remove_all_observers"} -> 4
      [] name = "set_register" -> 5
      [] name = "reset" -> 6
      [] OTHER -> 7

\* the set-up has not gone past the calls of rank k
SetUp(k) == ~crashed /\ CallOrder(call.name) <= k

\* vm::vm: reset()
Init ==
    /\ regs = registers_clear
    /\ mem = memory_clear
    /\ state = "halted"
    /\ instruction_count = 0
    /\ cycle_count = 0
    /\ on_error = FALSE
    /\ on_interrupt = FALSE
    /\ on_device_access = FALSE
    /\ observers = 0
    /\ console = <<>>
    /\ crashed = FALSE
    /\ call = plain_call("vm")
    /\ cx = [phase |-> "idle"]
    /\ ox = [phase |-> "idle"]

\* vm::on_device_access, with the registry holding the console
OnDeviceAccess ==
    /\ SetUp(0)
    /\ on_device_access' = TRUE
    /\ call' = plain_call("on_device_access")
    /\ UNCHANGED <<regs, mem, state, instruction_count, cycle_count, on_error, on_interrupt,
                   observers, console, crashed, cx, ox>>

\* vm::on_error
OnError ==
    /\ SetUp(1) /\ on_device_access
    /\ on_error' = TRUE
    /\ call' = plain_call("on_error")
    /\ UNCHANGED <<regs, mem, state, instruction_count, cycle_count, on_interrupt,
                   on_device_access, observers, console, crashed, cx, ox>>

\* vm::on_interrupt
OnInterrupt ==
    /\ SetUp(2) /\ on_error
    /\ on_interrupt' = TRUE
    /\ call' = plain_call("on_interrupt")
    /\ UNCHANGED <<regs, mem, state, instruction_count, cycle_count, on_error,
                   on_device_access, observers, console, crashed, cx, ox>>

\* vm::add_observer
AddObserver ==
    /\ SetUp(4) /\ on_interrupt /\ observers < MaxObservers
    /\ observers' = observers + 1
    /\ call' = plain_call("add_observer")
    /\ UNCHANGED <<regs, mem, state, instruction_count, cycle_count, on_error, on_interrupt,
                   on_device_access, console, crashed, cx, ox>>

\* vm::remove_all_observers
RemoveAllObservers ==
    /\ SetUp(4) /\ observers > 0
    /\ observers' = 0
    /\ call' = plain_call("remove_all_observers")
    /\ UNCHANGED <<regs, mem, state, instruction_count, cycle_count, on_error, on_interrupt,
                   on_device_access, console, crashed, cx, ox>>

\* vm::set_register
SetRegister ==
    /\ SetUp(5)
    /\ \E in \in RegisterInputs :
          /\ regs[in[1]] = Zero32
          /\ in[1] = reg.r1 => regs[reg.r2] # Zero32
          /\ regs' = [regs EXCEPT ![in[1]] = in[2]]
    /\ call' = plain_call("set_register")
    /\ UNCHANGED <<mem, state, instruction_count, cycle_count, on_error, on_interrupt,
                   on_device_access, observers, console, crashed, cx, ox>>

\* vm::load_program
LoadProgram ==
    /\ SetUp(6)
    /\ \E obj \in ObjectInputs :
          /\ Len(obj.code) + Len(obj.data) <= MemSize
          /\ mem' = load_data(load_data(memory_clear, 0, obj.code), Len(obj.code), obj.data)
          /\ regs' = [regs EXCEPT ![reg.pc] = obj.entry_offset,
                                  ![reg.sp] = FromNat(MemSize - 4)]
    /\ state' = "running"
    /\ instruction_count' = 0
    /\ cycle_count' = 0
    /\ call' = plain_call("load_program")
    /\ UNCHANGED <<on_error, on_interrupt, on_device_access, observers, console, crashed,
                   cx, ox>>

\* vm::load_binary
LoadBinary ==
    /\ SetUp(6)
    /\ \E in \in BinaryInputs :
          /\ in[2] + Len(in[1]) <= MemSize
          /\ mem' = load_data(memory_clear, in[2], in[1])
          /\ regs' = [regs EXCEPT ![reg.pc] = FromNat(in[2]),
                                  ![reg.sp] = FromNat(MemSize - 4)]
    /\ state' = "running"
    /\ instruction_count' = 0
    /\ cycle_count' = 0
    /\ call' = plain_call("load_binary")
    /\ UNCHANGED <<on_error, on_interrupt, on_device_access, observers, console, crashed,
                   cx, ox>>

\* vm::reset, once the program has stopped
Reset ==
    /\ ~crashed /\ state # "running" /\ call.name \in {"step", "run"}
    /\ regs' = registers_clear
    /\ state' = "halted"
    /\ instruction_count' = 0
    /\ cycle_count' = 0
    /\ mem' = memory_clear
    /\ call' = plain_call("reset")
    /\ UNCHANGED <<on_error, on_interrupt, on_device_access, observers, console, crashed,
                   cx, ox>>

\* the machine takes the result r of a call
Returns(r) ==
    /\ regs' = r.regs
    /\ mem' = r.mem
    /\ state' = r.state
    /\ console' = r.console
    /\ instruction_count' = r.instruction_count
    /\ cycle_count' = r.cycle_count
    /\ crashed' = r.crashed

\* a call of vm::step, after a load or a step, or on a stopped machine; the record keeps
\* the machine before the call, what the call returned and the callbacks it made
Step ==
    /\ ~crashed
    /\ state # "running" \/ call.name \in {"load_program", "load_binary", "step"}
    /\ state = "running" => instruction_count < MaxInstr /\ Len(console) < MaxOutput
    /\ \E u \in UBChoices :
          LET r == step(Machine, u)
          IN  /\ Returns(r)
              /\ call' = [name |-> "step", before |-> Machine, ret |-> r.ret,
                          events |-> r.events, pc_writes |-> r.pc_writes]
    /\ UNCHANGED <<on_error, on_interrupt, on_device_access, observers, cx, ox>>

\* a call of vm::run, after a load or on a stopped machine
Run ==
    /\ ~crashed
    /\ state # "running" \/ call.name \in {"load_program", "load_binary"}
    /\ \E max_instructions \in RunInputs :
          \E r \in run(Machine, max_instructions) :
              /\ r.instruction_count <= MaxInstr
              /\ Len(r.console) <= MaxOutput
              /\ Returns(r)
              /\ call' = [name |-> "run", before |-> Machine,
                          max_instructions |-> max_instructions, events |-> r.events]
    /\ UNCHANGED <<on_error, on_interrupt, on_device_access, observers, cx, ox>>

Next ==
    \/ OnDeviceAccess
    \/ OnError
    \/ OnInterrupt
    \/ AddObserver
    \/ RemoveAllObservers
    \/ SetRegister
    \/ LoadProgram
    \/ LoadBinary
    \/ Reset
    \/ Step
    \/ Run

Spec == Init /\ [][Next]_vars

-----------------------------------------------------------------------------
(* The object file container (object.cpp). byte_io is the little-endian    *)
(* byte reader / writer object.cpp calls; a buffer is a sequence of bytes, *)
(* and data + k is the buffer read from index k + 1.                       *)

\* byte_io::write_magic
write_magic(buf) == buf \o <<82, 71, 86, 77>>

\* byte_io::write_u16_le
write_u16_le(buf, v) == buf \o <<v % 256, (v \div 256) % 256>>

\* byte_io::write_u32_le
write_u32_le(buf, w) == buf \o <<w[1], w[2], w[3], w[4]>>

\* byte_io::check_magic
check_magic(buf) == buf[1] = 82 /\ buf[2] = 71 /\ buf[3] = 86 /\ buf[4] = 77

\* byte_io::read_u16_le(data + k)
read_u16_le(buf, k) == buf[k + 1] + 256 * buf[k + 2]

\* byte_io::read_u32_le(data + k)
read_u32_le(buf, k) == <<buf[k + 1], buf[k + 2], buf[k + 3], buf[k + 4]>>

\* object_file::version
version == 1

\* the 16MB limit of a section, 0x1000000
SectionLimit == <<0, 0, 0, 1>>

\* static_cast<uint32_t>(n) of a size below 2^31
size_u32(n) == FromNat(n)

\* to_binary had it written the data size before the code size
to_binary_sizes_swapped(o) ==
    LET h1 == write_magic(<<>>)
        h2 == write_u16_le(h1, version)
        h3 == write_u16_le(h2, 0)
        h4 == write_u32_le(h3, o.entry_offset)
        h5 == write_u32_le(h4, size_u32(Len(o.data)))
        h6 == write_u32_le(h5, size_u32(Len(o.code)))
        h7 == write_u32_le(h6, Zero32)
    IN  (h7 \o o.code) \o o.data

\* object_file::to_binary
to_binary(o) ==
    LET h1 == write_magic(<<>>)
        h2 == write_u16_le(h1, version)
        h3 == write_u16_le(h2, 0)
        h4 == write_u32_le(h3, o.entry_offset)
        h5 == write_u32_le(h4, size_u32(Len(o.code)))
        h6 == write_u32_le(h5, size_u32(Len(o.data)))
        h7 == write_u32_le(h6, Zero32)
    IN  (h7 \o o.code) \o o.data

\* from_binary had it checked the version before the magic
from_binary_version_first(binary) ==
    IF Len(binary) = 0 THEN Err("error: empty file")
    ELSE IF Len(binary) < 24 THEN Err("error: file too small")
    ELSE IF read_u16_le(binary, 4) # version THEN Err("error: unsupported version")
    ELSE IF ~check_magic(binary) THEN Err("error: invalid magic bytes")
    ELSE LET entry_offset == read_u32_le(binary, 8)
             code_size == read_u32_le(binary, 12)
             data_size == read_u32_le(binary, 16)
         IN  IF Lt32(SectionLimit, code_size) THEN Err("error: code section too large")
             ELSE IF Lt32(SectionLimit, data_size) THEN Err("error: data section too large")
             ELSE IF Len(binary) # 24 + ToNat(code_size) + ToNat(data_size)
             THEN Err("error: file size mismatch")
             ELSE IF code_size # Zero32 /\ ~Lt32(entry_offset, code_size)
             THEN Err("error: entry point is outside code section")
             ELSE IF entry_offset[1] % 4 # 0
             THEN Err("error: entry point is not 4-byte aligned")
             ELSE Ok([entry_offset |-> entry_offset,
                      code |-> SubSeq(binary, 25, 24 + ToNat(code_size)),
                      data |-> SubSeq(binary, 25 + ToNat(code_size),
                                      24 + ToNat(code_size) + ToNat(data_size))])

\* object_file::from_binary; an error is named by the start of its message
from_binary(binary) ==
    IF Len(binary) = 0 THEN Err("error: empty file")
    ELSE IF Len(binary) < 24 THEN Err("error: file too small")
    ELSE IF ~check_magic(binary) THEN Err("error: invalid magic bytes")
    ELSE IF read_u16_le(binary, 4) # version THEN Err("error: unsupported version")
    ELSE LET entry_offset == read_u32_le(binary, 8)
             code_size == read_u32_le(binary, 12)
             data_size == read_u32_le(binary, 16)
         IN  IF Lt32(SectionLimit, code_size) THEN Err("error: code section too large")
             ELSE IF Lt32(SectionLimit, data_size) THEN Err("error: data section too large")
             ELSE IF Len(binary) # 24 + ToNat(code_size) + ToNat(data_size)
             THEN Err("error: file size mismatch")
             ELSE IF code_size # Zero32 /\ ~Lt32(entry_offset, code_size)
             THEN Err("error: entry point is outside code section")
             ELSE IF entry_offset[1] % 4 # 0
             THEN Err("error: entry point is not 4-byte aligned")
             ELSE Ok([entry_offset |-> entry_offset,
                      code |-> SubSeq(binary, 25, 24 + ToNat(code_size)),
                      data |-> SubSeq(binary, 25 + ToNat(code_size),
                                      24 + ToNat(code_size) + ToNat(data_size))])

-----------------------------------------------------------------------------
(* The codec on its own: a word is decoded and the instruction encoded     *)
(* again; an instruction is encoded, the word decoded, and that encoded.   *)

\* bytes tried in each of the three operand fields of a word
FieldBytes == {0, 1, reg.sp, reg.sp + 1, 255}

\* opcode bytes tried: the table's, and some it lacks
OpcodeBytes == {opcode[n] : n \in DOMAIN opcode} \cup {17, 34, 254}

CodecWords == {<<b1, b2, b3, op>> : b1 \in FieldBytes, b2 \in FieldBytes, b3 \in FieldBytes,
                                     op \in OpcodeBytes}

\* register fields tried in an instruction: reg is a uint8_t enum, sp the last enumerator
RegFields == {reg.r0, reg.r1, reg.sp, reg.sp + 1}

\* instructions of every variant for an opcode, their fields in and out of range
CodecInstsOf(op) ==
    {make_op(op)}
    \cup {make_op_reg(op, a) : a \in RegFields}
    \cup {make_op_imm24(op, addr) : addr \in {Zero32, <<86, 52, 18, 0>>, <<255, 255, 255, 0>>,
                                              <<86, 52, 18, 1>>}}
    \cup {make_op_reg_imm16(op, a, imm) : a \in RegFields, imm \in {0, 4660, 65535}}
    \cup {make_op_reg_reg(op, a, b) : a \in RegFields, b \in RegFields}
    \cup {make_op_reg_reg_imm8(op, a, b, 129) : a \in RegFields, b \in RegFields}
    \cup {make_op_reg_imm8x2(op, a, 18, 52) : a \in RegFields}
    \cup {make_op_reg_reg_reg(op, a, b, c) : a \in RegFields, b \in RegFields, c \in {reg.r2, reg.sp + 1}}

CodecInsts == UNION {CodecInstsOf(opcode[n]) : n \in DOMAIN opcode}

\* the vm is left as constructed
VmIdle ==
    /\ regs = registers_clear
    /\ mem = memory_clear
    /\ state = "halted"
    /\ instruction_count = 0
    /\ cycle_count = 0
    /\ on_error = FALSE
    /\ on_interrupt = FALSE
    /\ on_device_access = FALSE
    /\ observers = 0
    /\ console = <<>>
    /\ crashed = FALSE
    /\ call = plain_call("vm")

InitCodec ==
    /\ VmIdle
    /\ ox = [phase |-> "idle"]
    /\ cx \in {[phase |-> "word", w |-> w] : w \in CodecWords}
              \cup {[phase |-> "inst", i |-> i] : i \in CodecInsts}

\* codec::decode(w)
DecodeWord ==
    /\ cx.phase = "word"
    /\ cx' = [phase |-> "decoded", w |-> cx.w, d |-> codec_decode(cx.w)]
    /\ UNCHANGED <<vmvars, ox>>

\* codec::encode(decode(w).value())
EncodeDecoded ==
    /\ cx.phase = "decoded" /\ cx.d.ok
    /\ cx' = [phase |-> "reencoded", w |-> cx.w, d |-> cx.d, e |-> codec_encode(cx.d.value)]
    /\ UNCHANGED <<vmvars, ox>>

\* codec::encode(i)
EncodeInst ==
    /\ cx.phase = "inst"
    /\ cx' = [phase |-> "encoded", i |-> cx.i, e |-> codec_encode(cx.i)]
    /\ UNCHANGED <<vmvars, ox>>

\* codec::decode(encode(i))
DecodeEncoded ==
    /\ cx.phase = "encoded"
    /\ cx' = [phase |-> "redecoded", i |-> cx.i, e |-> cx.e, d |-> codec_decode(cx.e)]
    /\ UNCHANGED <<vmvars, ox>>

\* codec::encode(decode(encode(i)).value())
EncodeRedecoded ==
    /\ cx.phase = "redecoded" /\ cx.d.ok
    /\ cx' = [phase |-> "looped", i |-> cx.i, e |-> cx.e, d |-> cx.d,
              e2 |-> codec_encode(cx.d.value)]
    /\ UNCHANGED <<vmvars, ox>>

NextCodec ==
    \/ DecodeWord
    \/ EncodeDecoded
    \/ EncodeInst
    \/ DecodeEncoded
    \/ EncodeRedecoded

SpecCodec == InitCodec /\ [][NextCodec]_vars

-----------------------------------------------------------------------------
(* The object file on its own: an object is written and the bytes read.    *)

\* words of code an object holds at most
MaxCodeWords == 2

\* bytes of data an object holds at most
MaxDataLen == 2

\* a code section of n words
CodeOf(n) == [k \in 1..(4 * n) |-> (16 * n + k) % 256]

\* a data section of n bytes
DataOf(n) == [k \in 1..n |-> 160 + k]

\* entry offsets tried: around the code sizes, misaligned, and far outside
EntryOffsets ==
    {FromNat(n) : n \in 0..(4 * MaxCodeWords + 4)} \cup {<<252, 255, 255, 255>>, <<0, 0, 0, 1>>}

ObjectFiles ==
    {[entry_offset |-> e, code |-> CodeOf(n), data |-> DataOf(d)] :
        e \in EntryOffsets, n \in 0..MaxCodeWords, d \in 0..MaxDataLen}

InitObject ==
    /\ VmIdle
    /\ cx = [phase |-> "idle"]
    /\ ox \in {[phase |-> "object", o |-> o] : o \in ObjectFiles}

\* o.to_binary()
ToBinary ==
    /\ ox.phase = "object"
    /\ ox' = [phase |-> "written", o |-> ox.o, binary |-> to_binary(ox.o)]
    /\ UNCHANGED <<vmvars, cx>>

\* object_file::from_binary(binary)
FromBinary ==
    /\ ox.phase = "written"
    /\ ox' = [phase |-> "read", o |-> ox.o, binary |-> ox.binary, r |-> from_binary(ox.binary)]
    /\ UNCHANGED <<vmvars, cx>>

NextObject ==
    \/ ToBinary
    \/ FromBinary

SpecObject == InitObject /\ [][NextObject]_vars

-----------------------------------------------------------------------------
(* The loader on its own: from_binary is given the bytes of a file, well   *)
(* formed or not (irre_emu, irre_disasm and disassemble_file read a file   *)
(* and hand its bytes over).                                               *)

\* longest body (the bytes after the header) of a file tried
MaxFileBody == 9

\* a 24-byte header written field by field, as the tests build one
file_header(magic, ver, entry, code_size, data_size) ==
    LET h1 == magic
        h2 == write_u16_le(h1, ver)
        h3 == write_u16_le(h2, 0)
        h4 == write_u32_le(h3, entry)
        h5 == write_u32_le(h4, code_size)
        h6 == write_u32_le(h5, data_size)
    IN  write_u32_le(h6, Zero32)

\* a body of n bytes
FileBody(n) == [k \in 1..n |-> k]

\* headers tried: magic and version right or wrong, sizes within and above the limit
FileHeaders ==
    {file_header(magic, ver, entry, cs, ds) :
        magic \in {write_magic(<<>>), <<66, 65, 68, 33>>},
        ver \in {version, 153},
        entry \in {Zero32, FromNat(1), FromNat(4), FromNat(8)},
        cs \in {Zero32, FromNat(4), FromNat(8), SectionLimit, <<1, 0, 0, 1>>},
        ds \in {Zero32, FromNat(1), <<1, 0, 0, 1>>}}

\* files tried: whole headers with a body, and headers cut short
LoaderFiles ==
    {h \o FileBody(n) : h \in FileHeaders, n \in 0..MaxFileBody}
    \cup {SubSeq(h, 1, n) : h \in FileHeaders, n \in {0, 3, 4, 5, 23}}

InitLoader ==
    /\ VmIdle
    /\ cx = [phase |-> "idle"]
    /\ ox \in {[phase |-> "file", binary |-> b] : b \in LoaderFiles}

\* object_file::from_binary(file_data)
LoadFile ==
    /\ ox.phase = "file"
    /\ ox' = [phase |-> "loaded", binary |-> ox.binary, r |-> from_binary(ox.binary)]
    /\ UNCHANGED <<vmvars, cx>>

NextLoader == LoadFile

SpecLoader == InitLoader /\ [][NextLoader]_vars

-----------------------------------------------------------------------------
(* The assembler's grammar (grammar.hpp). A text is a sequence of          *)
(* characters, each a string of length one; a position is an index into    *)
(* the text, the text's length plus one being the end of input. A rule     *)
(* answers the position after its match, or 0 when it does not match.      *)

\* the characters of the primitive rules digit, xdigit, alpha, blank and space
chars ==
    [digit |-> {"0", "1", "2", "3", "4", "5", "6", "7", "8", "9"},
     xletter |-> {"a", "b", "c", "d", "e", "f", "A", "B", "C", "D", "E", "F"},
     alpha |-> {"a", "b", "c", "d", "e", "f", "g", "h", "i", "j", "k", "l", "m", "n", "o", "p",
                "q", "r", "s", "t", "u", "v", "w", "x", "y", "z",
                "A", "B", "C", "D", "E", "F", "G", "H", "I", "J", "K", "L", "M", "N", "O", "P",
                "Q", "R", "S", "T", "U", "V", "W", "X", "Y", "Z"},
     blank |-> {" ", "\t"},
     space |-> {" ", "\t", "\n", "\r"},
     other |-> {"_", ":", ";", "%", "$", "#", "-", "\"", ",", "!"}]

\* the character at p, the empty string at the end of input
peek(t, p) == IF p >= 1 /\ p <= Len(t) THEN t[p] ELSE ""

\* star<one of S> at p: the position after the longest run of characters of S
star(t, p, S) ==
    CHOOSE q \in p..(Len(t) + 1) :
        /\ \A k \in p..(q - 1) : t[k] \in S
        /\ (q = Len(t) + 1 \/ t[q] \notin S)

\* until<eol> at p: the position after the first line feed, 0 when there is none
until_eol(t, p) ==
    IF \E k \in p..Len(t) : t[k] = "\n"
    THEN 1 + CHOOSE k \in p..Len(t) : t[k] = "\n" /\ \A j \in p..(k - 1) : t[j] # "\n"
    ELSE 0

\* string<lit> at p
string(t, p, lit) ==
    IF p + Len(lit) - 1 <= Len(t) /\ SubSeq(t, p, p + Len(lit) - 1) = lit THEN p + Len(lit) ELSE 0

\* struct identifier: a letter or underscore, then letters, digits and underscores
identifier(t, p) ==
    IF peek(t, p) \in chars.alpha \cup {"_"}
    THEN star(t, p + 1, chars.alpha \cup chars.digit \cup {"_"})
    ELSE 0

\* struct number : sor<hex_number, dec_number>
number(t, p) ==
    LET h1 == IF peek(t, p + 1) = "-" THEN p + 2 ELSE p + 1
        h2 == star(t, h1, chars.digit \cup chars.xletter)
        d1 == IF peek(t, p) = "#" THEN p + 1 ELSE p
        d2 == IF peek(t, d1) = "-" THEN d1 + 1 ELSE d1
        d3 == star(t, d2, chars.digit)
    IN  IF peek(t, p) = "$" /\ h2 > h1 THEN h2
        ELSE IF d3 > d2 THEN d3
        ELSE 0

\* the element of a set of one element: a value computed once and then named
Only(S) == CHOOSE v \in S : TRUE

\* struct operand : sor<identifier, number>
operand(t, p) == IF identifier(t, p) # 0 THEN identifier(t, p) ELSE number(t, p)

RECURSIVE operand_list(_, _)
\* star<seq<ws, operand>> at p
operand_list(t, p) ==
    Only({IF q > p /\ e # 0 THEN operand_list(t, e) ELSE p :
             q \in {star(t, p, chars.blank)}, e \in {operand(t, star(t, p, chars.blank))}})

\* struct asm_line : sor<label_def, directive, instruction>: the rule that matched and
\* the position after it
asm_line(t, p) ==
    LET id == identifier(t, p)
        e1 == string(t, p, <<"%", "e", "n", "t", "r", "y">>)
        e2 == IF e1 = 0 THEN 0 ELSE string(t, star(t, e1, chars.blank), <<":">>)
        e3 == IF e2 = 0 THEN 0 ELSE identifier(t, star(t, e2, chars.blank))
        s1 == string(t, p, <<"%", "s", "e", "c", "t", "i", "o", "n">>)
        s2 == IF s1 = 0 THEN 0 ELSE star(t, s1, chars.blank)
        s3 == IF s1 = 0 \/ s2 = s1 THEN 0 ELSE identifier(t, s2)
        d1 == string(t, p, <<"%", "d">>)
        d2 == IF d1 = 0 THEN 0 ELSE star(t, d1, chars.blank)
        d3 == IF d1 = 0 \/ d2 = d1 THEN 0 ELSE until_eol(t, d2)
    IN  IF id # 0 /\ peek(t, id) = ":" THEN [rule |-> "label_def", end |-> id + 1]
        ELSE IF e3 # 0 THEN [rule |-> "directive_entry", end |-> e3]
        ELSE IF s3 # 0 THEN [rule |-> "directive_section", end |-> s3]
        ELSE IF d3 # 0 THEN [rule |-> "directive_data", end |-> d3]
        ELSE IF id # 0 THEN [rule |-> "instruction", end |-> operand_list(t, id)]
        ELSE [rule |-> "none", end |-> 0]

RECURSIVE space_or_comment(_, _)
\* star<space_or_comment> at p; a comment runs to the end of its line or of the input
space_or_comment(t, p) ==
    Only({IF peek(t, q) = ";"
          THEN Only({space_or_comment(t, IF e = 0 THEN Len(t) + 1 ELSE e) : e \in {until_eol(t, q)}})
          ELSE q : q \in {star(t, p, chars.space)}})

-----------------------------------------------------------------------------
(* The assembler's actions (actions.hpp, actions.cpp): what the parser     *)
(* does with each line it has matched.                                     *)

\* the digit characters by value, as std::hex prints them
hex_digits == <<"0", "1", "2", "3", "4", "5", "6", "7", "8", "9", "a", "b", "c", "d", "e", "f">>

\* get_mnemonic(op): get_opcode_info(op).mnemonic
get_mnemonic(op) ==
    CASE op = opcode.nop -> <<"n", "o", "p">>
      [] op = opcode.add -> <<"a", "d", "d">>
      [] op = opcode.sub -> <<"s", "u", "b">>
      [] op = opcode.and_ -> <<"a", "n", "d">>
      [] op = opcode.orr -> <<"o", "r", "r">>
      [] op = opcode.xor_ -> <<"x", "o", "r">>
      [] op = opcode.not_ -> <<"n", "o", "t">>
      [] op = opcode.lsh -> <<"l", "s", "h">>
      [] op = opcode.ash -> <<"a", "s", "h">>
      [] op = opcode.tcu -> <<"t", "c", "u">>
      [] op = opcode.tcs -> <<"t", "c", "s">>
      [] op = opcode.set -> <<"s", "e", "t">>
      [] op = opcode.mov -> <<"m", "o", "v">>
      [] op = opcode.ldw -> <<"l", "d", "w">>
      [] op = opcode.stw -> <<"s", "t", "w">>
      [] op = opcode.ldb -> <<"l", "d", "b">>
      [] op = opcode.stb -> <<"s", "t", "b">>
      [] op = opcode.jmi -> <<"j", "m", "i">>
      [] op = opcode.jmp -> <<"j", "m", "p">>
      [] op = opcode.bve -> <<"b", "v", "e">>
      [] op = opcode.bvn -> <<"b", "v", "n">>
      [] op = opcode.cal -> <<"c", "a", "l">>
      [] op = opcode.ret -> <<"r", "e", "t">>
      [] op = opcode.mul -> <<"m", "u", "l">>
      [] op = opcode.div -> <<"d", "i", "v">>
      [] op = opcode.mod -> <<"m", "o", "d">>
      [] op = opcode.sia -> <<"s", "i", "a">>
      [] op = opcode.sup -> <<"s", "u", "p">>
      [] op = opcode.sxt -> <<"s", "x", "t">>
      [] op = opcode.seq -> <<"s", "e", "q">>
      [] op = opcode.int_ -> <<"i", "n", "t">>
      [] op = opcode.snd -> <<"s", "n", "d">>
      [] op = opcode.hlt -> <<"h", "l", "t">>
      [] OTHER -> <<"?", "?", "?">>

\* reg_name(r)
reg_name(r) ==
    IF r <= 9 THEN <<"r", hex_digits[r + 1]>>
    ELSE IF r <= 31 THEN <<"r", hex_digits[(r \div 10) + 1], hex_digits[(r % 10) + 1]>>
    ELSE CASE r = reg.pc -> <<"p", "c">>
           [] r = reg.lr -> <<"l", "r">>
           [] r = reg.ad -> <<"a", "d">>
           [] r = reg.at -> <<"a", "t">>
           [] r = reg.sp -> <<"s", "p">>
           [] OTHER -> <<"?", "?", "?">>

\* std::optional: a value, or std::nullopt
Some(v) == [has_value |-> TRUE, value |-> v]

\* parse_register: the chain of comparisons holds the names reg_name gives r0..r31, pc,
\* lr, ad, at and sp
parse_register(reg_str) ==
    IF \E r \in 0..reg.sp : reg_name(r) = reg_str
    THEN Some(CHOOSE r \in 0..reg.sp : reg_name(r) = reg_str)
    ELSE [has_value |-> FALSE]

\* parse_mnemonic: the chain of comparisons holds the mnemonics of the 33 opcodes
parse_mnemonic(mnemonic) ==
    IF \E n \in DOMAIN opcode : get_mnemonic(opcode[n]) = mnemonic
    THEN Some(CHOOSE op \in {opcode[n] : n \in DOMAIN opcode} : get_mnemonic(op) = mnemonic)
    ELSE [has_value |-> FALSE]

RECURSIVE digits_value(_, _)
\* the number a string of at most 5 digits of the base denotes
digits_value(str, base) ==
    IF str = <<>> THEN 0
    ELSE LET c == str[Len(str)]
             d == CHOOSE n \in 0..15 :
                      \/ hex_digits[n + 1] = c
                      \/ n >= 10 /\ <<"A", "B", "C", "D", "E", "F">>[n - 9] = c
         IN  digits_value(SubSeq(str, 1, Len(str) - 1), base) * base + d

\* std::stoul(str, nullptr, base) cast to uint32_t, of a string of at most 8
\* hexadecimal or 10 decimal digits: the leading digits scaled, plus the trailing ones
stoul(str, base) ==
    LET k == IF base = 16 THEN 4 ELSE 5
        cut == IF Len(str) > k THEN Len(str) - k ELSE 0
        hi == digits_value(SubSeq(str, 1, cut), base)
        lo == digits_value(SubSeq(str, cut + 1, Len(str)), base)
        \* hi * 100000 + lo as low + 256 * rest, 100000 being 390 * 256 + 160
        low == hi * 160 + lo
        rest == (low \div 256) + hi * 390
    IN  IF base = 16 THEN FromHalves(lo, hi)
        ELSE <<low % 256, rest % 256, (rest \div 256) % 256, (rest \div 65536) % 256>>

\* parse_immediate of a token the grammar's number rule matched, or of a token that
\* does not start as one
parse_immediate(imm_str) ==
    LET signed(str, base, what) ==
            IF str = <<>> THEN Err(<<"missing ", what, " digits after prefix">>)
            ELSE IF str[1] = "-"
            THEN IF Len(str) = 1 THEN Err(<<"missing ", what, " digits after prefix-">>)
                 ELSE Ok(Neg32(stoul(Tail(str), base)))
            ELSE Ok(stoul(str, base))
    IN  IF imm_str = <<>> THEN Err(<<"empty immediate value">>)
        ELSE IF imm_str[1] = "$" THEN signed(Tail(imm_str), 16, "hex")
        ELSE IF imm_str[1] = "#" THEN signed(Tail(imm_str), 10, "decimal")
        ELSE IF imm_str[1] \in chars.digit THEN Ok(stoul(imm_str, 10))
        ELSE Err(<<"invalid number format: ", imm_str>>)

\* is_immediate
is_immediate(str) == str[1] = "#" \/ str[1] = "$" \/ str[1] \in chars.digit

\* is_pseudo_instruction
is_pseudo_instruction(mnemonic) == mnemonic = <<"a", "d", "i">> \/ mnemonic = <<"s", "b", "i">>

\* validation_result::ok()
validation_ok == [success |-> TRUE, error |-> "unknown_instruction", message |-> <<>>]

\* validation_result::fail
validation_fail(err, msg) == [success |-> FALSE, error |-> err, message |-> msg]

\* validate_immediate_range had it taken every value whose low bits fit
validate_immediate_range_low_bits(value, bits) == validation_ok

\* validate_immediate_range: bits is 8, 16 or 24
validate_immediate_range(value, bits) ==
    LET max_unsigned == CASE bits = 8 -> <<255, 0, 0, 0>>
                          [] bits = 16 -> <<255, 255, 0, 0>>
                          [] bits = 24 -> <<255, 255, 255, 0>>
        half == CASE bits = 8 -> <<127, 0, 0, 0>>
                  [] bits = 16 -> <<255, 127, 0, 0>>
                  [] bits = 24 -> <<255, 255, 127, 0>>
        min_negative == Sub32(<<255, 255, 255, 255>>, half)
    IN  IF ~Lt32(max_unsigned, value) THEN validation_ok
        ELSE IF ~Lt32(value, min_negative) THEN validation_ok
        ELSE validation_fail("immediate_out_of_range",
                             <<"immediate value ", value, " exceeds ", bits, "-bit range">>)

\* validate_instruction_operands
validate_instruction_operands(op, operands) ==
    Only({
        LET count(n, text) ==
                validation_fail("operand_count_mismatch",
                                <<"instruction '", mnemonic, text, Len(operands)>>)
            type(text) ==
                validation_fail("operand_type_mismatch", <<"instruction '", mnemonic, text>>)
            \* the check of an operand that may be an immediate of the given width
            imm(k, bits) ==
                IF ~is_immediate(operands[k]) THEN validation_ok
                ELSE IF ~imm_result[k].ok
                THEN validation_fail("invalid_immediate", imm_result[k].error)
                ELSE validate_immediate_range(imm_result[k].value, bits)
        IN  CASE fmt = "op" ->
                    IF Len(operands) # 0 THEN count(0, "' expects 0 operands, got ")
                    ELSE validation_ok
              [] fmt = "op_reg" ->
                    IF Len(operands) # 1 THEN count(1, "' expects 1 operand, got ")
                    ELSE IF ~is_reg[1] /\ ~is_immediate(operands[1])
                    THEN type("' expects register operand")
                    ELSE validation_ok
              [] fmt = "op_imm24" ->
                    IF Len(operands) # 1 THEN count(1, "' expects 1 operand, got ")
                    ELSE imm(1, 24)
              [] fmt = "op_reg_imm16" ->
                    IF Len(operands) # 2 THEN count(2, "' expects 2 operands, got ")
                    ELSE IF ~is_reg[1] THEN type("' first operand must be register")
                    ELSE imm(2, 16)
              [] fmt = "op_reg_reg" ->
                    IF Len(operands) # 2 THEN count(2, "' expects 2 operands, got ")
                    ELSE IF ~is_reg[1] THEN type("' first operand must be register")
                    ELSE IF ~is_reg[2] THEN type("' second operand must be register")
                    ELSE validation_ok
              [] fmt = "op_reg_reg_imm8" ->
                    IF Len(operands) # 3 THEN count(3, "' expects 3 operands, got ")
                    ELSE IF ~is_reg[1] THEN type("' first operand must be register")
                    ELSE IF ~is_reg[2] THEN type("' second operand must be register")
                    ELSE imm(3, 8)
              [] fmt = "op_reg_imm8x2" ->
                    IF Len(operands) # 3 THEN count(3, "' expects 3 operands, got ")
                    ELSE IF ~is_reg[1] THEN type("' first operand must be register")
                    ELSE IF ~imm(2, 8).success THEN imm(2, 8)
                    ELSE imm(3, 8)
              [] fmt = "op_reg_reg_reg" ->
                    IF Len(operands) # 3 THEN count(3, "' expects 3 operands, got ")
                    ELSE IF ~is_reg[1] \/ ~is_reg[2] \/ ~is_reg[3]
                    THEN type("' all operands must be registers")
                    ELSE validation_ok
        : fmt \in {get_format(op)},
          mnemonic \in {get_mnemonic(op)},
          \* parse_register and parse_immediate of each operand, called once
          is_reg \in {[k \in DOMAIN operands |-> parse_register(operands[k]).has_value]},
          imm_result \in {[k \in DOMAIN operands |->
                             IF is_immediate(operands[k]) THEN parse_immediate(operands[k])
                             ELSE Err(<<>>)]} })

\* expand_pseudo_instruction
expand_pseudo_instruction(mnemonic, operands) ==
    IF Len(operands) # 3 THEN <<>>
    ELSE IF mnemonic = <<"a", "d", "i">>
    THEN << <<<<"s", "e", "t">>, <<"a", "t">>, operands[3]>>,
            <<<<"a", "d", "d">>, operands[1], operands[2], <<"a", "t">>>> >>
    ELSE IF mnemonic = <<"s", "b", "i">>
    THEN << <<<<"s", "e", "t">>, <<"a", "t">>, operands[3]>>,
            <<<<"s", "u", "b">>, operands[1], operands[2], <<"a", "t">>>> >>
    ELSE <<>>

\* source_location(): line 0, column 0
no_location == [line |-> 0, column |-> 0]

\* the alternatives of the operands the format's instruction is built from
operand_shape(fmt) ==
    CASE fmt = "op" -> <<>>
      [] fmt = "op_reg" -> <<"reg">>
      [] fmt = "op_imm24" -> <<"uint32_t">>
      [] fmt = "op_reg_imm16" -> <<"reg", "uint32_t">>
      [] fmt = "op_reg_reg" -> <<"reg", "reg">>
      [] fmt = "op_reg_reg_imm8" -> <<"reg", "reg", "uint32_t">>
      [] fmt = "op_reg_imm8x2" -> <<"reg", "uint32_t", "uint32_t">>
      [] fmt = "op_reg_reg_reg" -> <<"reg", "reg", "reg">>

\* the make:: call of the format on operand values of the format's shape, an immediate
\* cast to the width of its field
make_instruction(op, v) ==
    LET fmt == get_format(op)
    IN  CASE fmt = "op" -> make_op(op)
          [] fmt = "op_reg" -> make_op_reg(op, v[1])
          [] fmt = "op_imm24" -> make_op_imm24(op, v[1])
          [] fmt = "op_reg_imm16" -> make_op_reg_imm16(op, v[1], Low16(v[2]))
          [] fmt = "op_reg_reg" -> make_op_reg_reg(op, v[1], v[2])
          [] fmt = "op_reg_reg_imm8" -> make_op_reg_reg_imm8(op, v[1], v[2], v[3][1])
          [] fmt = "op_reg_imm8x2" -> make_op_reg_imm8x2(op, v[1], v[2][1], v[3][1])
          [] fmt = "op_reg_reg_reg" -> make_op_reg_reg_reg(op, v[1], v[2], v[3])

\* process_single_instruction: the parse state it leaves and the result it returns
process_single_instruction(s, mnemonic, operand_strs) ==
    Only({
        LET op == opcode_opt.value
            bad == {k \in DOMAIN operand_strs : parsed[k].is = "error"}
            has_labels == \E k \in DOMAIN parsed : parsed[k].is = "std::string"
            \* std::get of each operand as the format's alternative succeeds
            concrete == [k \in DOMAIN parsed |-> parsed[k].is] = operand_shape(get_format(op))
            item == IF ~has_labels /\ concrete
                    THEN [kind |-> "instruction",
                          inst |-> make_instruction(op, [k \in DOMAIN parsed |-> parsed[k].value])]
                    ELSE [kind |-> "unresolved_instruction", op |-> op, operands |-> parsed,
                          location |-> no_location]
        IN  IF ~opcode_opt.has_value
            THEN [s |-> s,
                  result |-> validation_fail("unknown_instruction",
                                             <<"unknown instruction: ", mnemonic>>)]
            ELSE Only({IF ~validation.success THEN [s |-> s, result |-> validation]
                       ELSE IF bad # {}
                       THEN [s |-> s,
                             result |-> validation_fail("invalid_immediate",
                                            parsed[CHOOSE k \in bad : \A j \in bad : k <= j].value)]
                       ELSE [s |-> [s EXCEPT !.items = Append(@, item)], result |-> validation_ok]
                       : validation \in {validate_instruction_operands(op, operand_strs)}})
        : opcode_opt \in {parse_mnemonic(mnemonic)},
          \* what each operand string parses to: a register, an immediate, or neither
          parsed \in {[k \in DOMAIN operand_strs |->
                        Only({IF as_reg.has_value THEN [is |-> "reg", value |-> as_reg.value]
                              ELSE IF ~is_immediate(operand_strs[k])
                              THEN [is |-> "std::string", value |-> operand_strs[k]]
                              ELSE Only({IF imm_result.ok
                                         THEN [is |-> "uint32_t", value |-> imm_result.value]
                                         ELSE [is |-> "error", value |-> imm_result.error] :
                                            imm_result \in {parse_immediate(operand_strs[k])}}) :
                                 as_reg \in {parse_register(operand_strs[k])}})]} })

RECURSIVE tokens(_, _)
\* the tokens operator>> reads from the text at p on: runs of characters that are not
\* white space
tokens(t, p) ==
    Only({IF q > Len(t) THEN <<>>
          ELSE Only({<<SubSeq(t, q, e - 1)>> \o tokens(t, e) :
                        e \in {star(t, q, (chars.digit \cup chars.alpha \cup chars.other))}})
          : q \in {star(t, p, chars.space)}})

RECURSIVE process_lines(_, _)
\* the loop of action<instruction>: process_single_instruction on each line, a mnemonic
\* and its operands, then parse_state::add_error
process_lines(s, lines) ==
    IF lines = <<>> THEN s
    ELSE Only({process_lines(IF r.result.success THEN r.s
                             ELSE [r.s EXCEPT !.errors = Append(@, r.result)],
                             Tail(lines))
               : r \in {process_single_instruction(s, Head(lines)[1], Tail(Head(lines)))}})

\* action<Rule>::apply on the matched text in, the parse state s
action(rule, in, s) ==
    CASE rule = "label_def" ->
            [s EXCEPT !.items = Append(@, [kind |-> "label_def",
                                          name |-> SubSeq(in, 1, Len(in) - 1),
                                          location |-> no_location])]
      [] rule = "directive_entry" ->
            LET colon_pos == CHOOSE k \in 1..Len(in) : in[k] = ":" /\ \A j \in 1..(k - 1) : in[j] # ":"
            IN  [s EXCEPT !.entry_point = SubSeq(in, star(in, colon_pos + 1, chars.blank), Len(in))]
      [] rule = "directive_section" ->
            [s EXCEPT !.current_section = tokens(in, 1)[2]]
      [] rule = "directive_data" ->
            [s EXCEPT !.items = Append(@, [kind |-> "data_block", bytes |-> <<0>>,
                                          location |-> no_location])]
      [] rule = "instruction" ->
            Only({IF is_pseudo_instruction(tok[1])
                  THEN process_lines(s, expand_pseudo_instruction(tok[1], Tail(tok)))
                  ELSE process_lines(s, <<tok>>)
                  : tok \in {tokens(in, 1)}})

RECURSIVE program(_, _, _)
\* star<seq<asm_line, star<space_or_comment>>> at p with the actions applied: the parse
\* state, and the position the items end at
program(t, p, s) ==
    Only({IF m.end = 0 THEN [s |-> s, end |-> p]
          ELSE Only({program(t, q, s1) :
                        q \in {space_or_comment(t, m.end)},
                        s1 \in {action(m.rule, SubSeq(t, p, m.end - 1), s)}})
          : m \in {asm_line(t, p)}})

\* the line and column, counted from 1, of position p of the input
position(t, p) ==
    LET feeds == {k \in 1..(p - 1) : t[k] = "\n"}
        last == IF feeds = {} THEN 0 ELSE CHOOSE k \in feeds : \A j \in feeds : j <= k
    IN  [line |-> 1 + Cardinality(feeds), column |-> p - last]

\* assembler::parse; a failed match leaves the input at its start
assembler_parse(source) ==
    Only({
        LET success == r.end = Len(source) + 1
            first_error == r.s.errors[1]
            error_type ==
                CASE first_error.error = "unknown_instruction" -> "invalid_instruction"
                  [] first_error.error = "unknown_register" -> "invalid_register"
                  [] first_error.error \in {"invalid_immediate", "immediate_out_of_range"} ->
                        "invalid_immediate"
                  [] first_error.error \in {"operand_count_mismatch", "operand_type_mismatch"} ->
                        "invalid_instruction"
        IN  Only({IF ~success
                  THEN Err([error |-> "parse_error", message |-> <<"failed to parse assembly">>,
                            line |-> input.line, column |-> input.column])
                  ELSE IF r.s.errors # <<>>
                  THEN Err([error |-> error_type, message |-> first_error.message,
                            line |-> input.line, column |-> input.column])
                  ELSE Ok([items |-> r.s.items, entry_label |-> r.s.entry_point])
                  : input \in {position(source, IF success THEN r.end ELSE 1)}})
        : r \in {program(source, space_or_comment(source, 1),
                         [items |-> <<>>, entry_point |-> <<>>,
                          current_section |-> <<"c", "o", "d", "e">>, errors |-> <<>>])} })

-----------------------------------------------------------------------------
(* Symbols (symbols.hpp, symbols.cpp) and the assembler (assembler.cpp).   *)
(* An item is a record whose kind names its alternative of asm_item; a     *)
(* symbol table is the map symbols_ from names to addresses.               *)

\* an exception that leaves the call: no result is returned
Thrown(e) == [ok |-> FALSE, thrown |-> e]

\* symbol_error_info(err, name, loc)
symbol_error_info(err, name, loc) ==
    [error |-> err, symbol_name |-> name, location |-> loc,
     message |-> CASE err = "undefined_symbol" -> <<"undefined symbol '", name, "'">>
                   [] err = "duplicate_symbol" -> <<"duplicate symbol '", name, "'">>
                   [] err = "invalid_symbol_reference" -> <<"invalid symbol reference '", name, "'">>]

RECURSIVE build_loop_overwrite(_, _, _, _)
\* the loop of symbol_table::build had it no check for a name already bound
build_loop_overwrite(items, k, symbols_, address) ==
    IF k > Len(items) THEN [result |-> Ok(TRUE), symbols_ |-> symbols_]
    ELSE LET content == items[k]
         IN  CASE content.kind = "label_def" ->
                    Only({build_loop_overwrite(items, k + 1, bound, address) :
                             bound \in {[n \in DOMAIN symbols_ \cup {content.name} |->
                                           IF n = content.name THEN address ELSE symbols_[n]]}})
               [] content.kind \in {"instruction", "unresolved_instruction"} ->
                    Only({build_loop_overwrite(items, k + 1, symbols_, next) :
                             next \in {Add32(address, FromNat(4))}})
               [] content.kind = "data_block" ->
                    Only({build_loop_overwrite(items, k + 1, symbols_, next) :
                             next \in {Add32(address, FromNat(Len(content.bytes)))}})

RECURSIVE build_loop(_, _, _, _)
\* the loop of symbol_table::build from item k on, symbols_ and address as they stand
build_loop(items, k, symbols_, address) ==
    IF k > Len(items) THEN [result |-> Ok(TRUE), symbols_ |-> symbols_]
    ELSE LET content == items[k]
         IN  CASE content.kind = "label_def" ->
                    IF content.name \in DOMAIN symbols_
                    THEN [result |-> Err(symbol_error_info("duplicate_symbol", content.name,
                                                           content.location)),
                          symbols_ |-> symbols_]
                    ELSE Only({build_loop(items, k + 1, bound, address) :
                             bound \in {[n \in DOMAIN symbols_ \cup {content.name} |->
                                           IF n = content.name THEN address ELSE symbols_[n]]}})
               [] content.kind \in {"instruction", "unresolved_instruction"} ->
                    Only({build_loop(items, k + 1, symbols_, next) :
                             next \in {Add32(address, FromNat(4))}})
               [] content.kind = "data_block" ->
                    Only({build_loop(items, k + 1, symbols_, next) :
                             next \in {Add32(address, FromNat(Len(content.bytes)))}})

\* symbol_table::build had it bound a label after advancing past the item that follows
symbol_table_build_late(items) == build_loop(items, 1, <<>>, FromNat(4))

\* symbol_table::build: its result and the table it leaves
symbol_table_build(items) == build_loop(items, 1, <<>>, Zero32)

\* symbol_table::resolve had it answered 0 for a name the table lacks
symbol_table_resolve_or_zero(symbols_, name, location) ==
    Ok(IF name \in DOMAIN symbols_ THEN symbols_[name] ELSE Zero32)

\* symbol_table::resolve
symbol_table_resolve(symbols_, name, location) ==
    IF name \notin DOMAIN symbols_ THEN Err(symbol_error_info("undefined_symbol", name, location))
    ELSE Ok(symbols_[name])

\* symbol_table::get_entry_address
get_entry_address(symbols_, entry_label) ==
    IF entry_label \in DOMAIN symbols_ THEN symbols_[entry_label] ELSE Zero32

\* symbol_resolver::resolve_operand: the alternative it returns; a uint8_t is kept as a
\* word whose upper bytes are zero
resolve_operand(symbols_, operand_, location, is_8bit) ==
    LET narrow(w) == IF is_8bit THEN [is |-> "uint8_t", value |-> <<w[1], 0, 0, 0>>]
                     ELSE [is |-> "uint32_t", value |-> w]
    IN  CASE operand_.is = "reg" -> Ok(operand_)
          [] operand_.is = "uint32_t" -> Ok(narrow(operand_.value))
          [] operand_.is = "std::string" ->
                Only({IF ~addr_result.ok THEN addr_result ELSE Ok(narrow(addr_result.value)) :
                         addr_result \in {symbol_table_resolve(symbols_, operand_.value,
                                                               location)}})

\* symbol_resolver::resolve_instruction
resolve_instruction(symbols_, unresolved) ==
    Only({
        LET is_8bit(k) == (fmt = "op_reg_reg_imm8" /\ k = 3)
                          \/ (fmt = "op_reg_imm8x2" /\ k \in {2, 3})
            \* the alternative std::get asks of result k
            wanted(k) == IF is_8bit(k) THEN "uint8_t" ELSE shape[k]
        IN  IF fmt = "op" THEN Ok(make_op(unresolved.op))
            ELSE IF Len(unresolved.operands) # Len(shape)
            THEN Err(symbol_error_info("invalid_symbol_reference", <<"<", "operand", ">">>,
                                       unresolved.location))
            ELSE Only({
                    LET failed == {k \in DOMAIN shape : ~r[k].ok}
                    IN  IF failed # {} THEN r[CHOOSE k \in failed : \A j \in failed : k <= j]
                        ELSE IF \E k \in DOMAIN shape : r[k].value.is # wanted(k)
                        THEN Thrown("std::bad_variant_access")
                        ELSE Ok(make_instruction(unresolved.op,
                                                 [k \in DOMAIN shape |-> r[k].value.value]))
                    : r \in {[k \in DOMAIN shape |->
                                resolve_operand(symbols_, unresolved.operands[k],
                                                unresolved.location, is_8bit(k))]} })
        : fmt \in {get_format(unresolved.op)},
          shape \in {operand_shape(get_format(unresolved.op))} })

\* symbol_resolver::resolve
symbol_resolver_resolve(symbols_, items) ==
    LET is_instruction(item) == item.kind \in {"instruction", "unresolved_instruction"}
    IN  Only({
            LET failed == {k \in DOMAIN r : ~r[k].ok}
            IN  IF failed # {} THEN r[CHOOSE k \in failed : \A j \in failed : k <= j]
                ELSE Ok([k \in DOMAIN r |-> r[k].value])
            : r \in { Only({[k \in DOMAIN insts |->
                               IF insts[k].kind = "instruction" THEN Ok(insts[k].inst)
                               ELSE resolve_instruction(symbols_, insts[k])] :
                                  insts \in {SelectSeq(items, is_instruction)}}) } })

\* assembler::resolve_symbols
resolve_symbols(state_) ==
    LET as_assembly_error(err) ==
            Err([error |-> "undefined_symbol", message |-> err.message,
                 line |-> err.location.line, column |-> err.location.column])
    IN  Only({IF ~built.result.ok THEN as_assembly_error(built.result.error)
              ELSE Only({IF "thrown" \in DOMAIN resolve_result THEN resolve_result
                         ELSE IF ~resolve_result.ok
                         THEN as_assembly_error(resolve_result.error)
                         ELSE resolve_result
                         : resolve_result \in {symbol_resolver_resolve(built.symbols_,
                                                                       state_.items)}})
              : built \in {symbol_table_build(state_.items)}})

\* assembler::encode_instructions
encode_instructions(instructions) ==
    [k \in 1..(4 * Len(instructions)) |->
        encode_bytes(instructions[((k - 1) \div 4) + 1])[((k - 1) % 4) + 1]]

\* assembler::assemble from its step 2 on: the parsed state to the object file
assemble_state(state_) ==
    Only({IF "thrown" \in DOMAIN resolve_result THEN resolve_result
          ELSE IF ~resolve_result.ok
          THEN Err([error |-> "undefined_symbol", message |-> resolve_result.error.message,
                    line |-> 0, column |-> 0])
          ELSE Ok([entry_offset |->
                      IF state_.entry_label # <<>>
                      THEN Only({IF symbols.result.ok
                                 THEN get_entry_address(symbols.symbols_, state_.entry_label)
                                 ELSE Zero32 : symbols \in {symbol_table_build(state_.items)}})
                      ELSE Zero32,
                   code |-> encode_instructions(resolve_result.value),
                   data |-> <<>>])
          : resolve_result \in {resolve_symbols(state_)}})

\* assembler::assemble
assemble(source) ==
    Only({IF ~parse_result.ok THEN parse_result ELSE assemble_state(parse_result.value) :
             parse_result \in {assembler_parse(source)}})

-----------------------------------------------------------------------------
(* The two passes over item lists: symbol_table::build, then               *)
(* symbol_resolver::resolve (the order of assembler::resolve_symbols).     *)

\* item lists hold at most this many items
MaxItems == 3

\* the byte length of the long data block
BigBlock == 256

\* the item at place k of a list: labels a and b, a concrete instruction, instructions
\* naming a label in a 24-, 16- and 8-bit slot, a short and a long data block
ItemShapes == {"a:", "b:", "nop", "jmi b", "set r1 a", "sia r1 b 0", "data1", "dataN"}

item_at(shape, k) ==
    LET loc == [line |-> k, column |-> 1]
        label_operand(n) == [is |-> "std::string", value |-> <<n>>]
        r1 == [is |-> "reg", value |-> reg.r1]
    IN  CASE shape = "a:" -> [kind |-> "label_def", name |-> <<"a">>, location |-> loc]
          [] shape = "b:" -> [kind |-> "label_def", name |-> <<"b">>, location |-> loc]
          [] shape = "nop" -> [kind |-> "instruction", inst |-> make_op(opcode.nop)]
          [] shape = "jmi b" ->
                [kind |-> "unresolved_instruction", op |-> opcode.jmi,
                 operands |-> <<label_operand("b")>>, location |-> loc]
          [] shape = "set r1 a" ->
                [kind |-> "unresolved_instruction", op |-> opcode.set,
                 operands |-> <<r1, label_operand("a")>>, location |-> loc]
          [] shape = "sia r1 b 0" ->
                [kind |-> "unresolved_instruction", op |-> opcode.sia,
                 operands |-> <<r1, label_operand("b"), [is |-> "uint32_t", value |-> Zero32]>>,
                 location |-> loc]
          [] shape = "data1" -> [kind |-> "data_block", bytes |-> <<7>>, location |-> loc]
          [] shape = "dataN" ->
                [kind |-> "data_block", bytes |-> [j \in 1..BigBlock |-> 0], location |-> loc]

ItemLists ==
    UNION {{[k \in 1..n |-> item_at(f[k], k)] : f \in [1..n -> ItemShapes]} : n \in 0..MaxItems}

InitSymbols ==
    /\ VmIdle
    /\ cx = [phase |-> "idle"]
    /\ ox \in {[phase |-> "items", items |-> l] : l \in ItemLists}

\* symbol_table::build(items)
BuildSymbols ==
    /\ ox.phase = "items"
    /\ ox' = [phase |-> "built", items |-> ox.items, built |-> symbol_table_build(ox.items)]
    /\ UNCHANGED <<vmvars, cx>>

\* symbol_resolver::resolve(items) over the table that was built
ResolveItems ==
    /\ ox.phase = "built"
    /\ ox.built.result.ok
    /\ ox' = [phase |-> "resolved", items |-> ox.items, built |-> ox.built,
              r |-> symbol_resolver_resolve(ox.built.symbols_, ox.items)]
    /\ UNCHANGED <<vmvars, cx>>

\* assembler::assemble on a parsed state that holds the items and names no entry label
AssembleItems ==
    /\ ox.phase = "built"
    /\ ox' = [phase |-> "object", items |-> ox.items, built |-> ox.built,
              obj |-> assemble_state([items |-> ox.items, entry_label |-> <<>>])]
    /\ UNCHANGED <<vmvars, cx>>

NextSymbols == BuildSymbols \/ ResolveItems \/ AssembleItems

SpecSymbols == InitSymbols /\ [][NextSymbols]_vars

-----------------------------------------------------------------------------
(* Assembling source texts (assembler::assemble).                          *)

\* sources hold at most this many lines
MaxLines == 3

\* the lines sources are made of: a label, instructions that assemble, an op_reg
\* instruction with an immediate, a label reference, a bif line, a data directive, a
\* pseudo-instruction, two lines the validator rejects (operand count, immediate
\* range), an entry directive and a data directive with a string
SourceLines ==
    {<<"a", ":", "\n">>,
     <<"n", "o", "p", "\n">>,
     <<"j", "m", "p", " ", "5", "\n">>,
     <<"j", "m", "i", " ", "a", "\n">>,
     <<"b", "i", "f", " ", "r", "1", " ", "a", " ", "0", "\n">>,
     <<"%", "d", " ", "1", "\n">>,
     <<"a", "d", "i", " ", "r", "0", " ", "r", "1", " ", "1", "0", "\n">>,
     <<" ", "a", "d", "d", " ", "r", "1", " ", "r", "2", "\n">>,
     <<"s", "e", "t", " ", "r", "1", " ", "$", "1", "2", "3", "4", "5", "\n">>,
     <<"%", "e", "n", "t", "r", "y", ":", " ", "a", "\n">>,
     <<"%", "d", " ", "\"", "h", "i", "\"", " ", "#", "2", "\n">>}

RECURSIVE source_text(_)
\* the text of a sequence of lines
source_text(lines) == IF lines = <<>> THEN <<>> ELSE Head(lines) \o source_text(Tail(lines))

Sources == UNION {[1..n -> SourceLines] : n \in 0..MaxLines}

InitAssemble ==
    /\ VmIdle
    /\ cx = [phase |-> "idle"]
    /\ ox \in {[phase |-> "source", lines |-> l] : l \in Sources}

\* assembler::assemble(source)
Assemble ==
    /\ ox.phase = "source"
    /\ ox' = [phase |-> "assembled", lines |-> ox.lines, r |-> assemble(source_text(ox.lines))]
    /\ UNCHANGED <<vmvars, cx>>

\* object_file::to_binary of the object assemble returned, and object_file::from_binary
\* of those bytes
ReadBack ==
    /\ ox.phase = "assembled" /\ ox.r.ok
    /\ ox' = [phase |-> "read", lines |-> ox.lines, r |-> ox.r,
              back |-> from_binary(to_binary(ox.r.value))]
    /\ UNCHANGED <<vmvars, cx>>

NextAssemble == Assemble \/ ReadBack

SpecAssemble == InitAssemble /\ [][NextAssemble]_vars

-----------------------------------------------------------------------------
(* The disassembler (disassembler.hpp, disassembler.cpp) and               *)
(* format_instruction (util.hpp). Text is a sequence of characters.        *)

\* two hexadecimal digits: std::hex, std::setfill('0'), std::setw(2) of a byte
hex_byte(b) == <<hex_digits[(b \div 16) + 1], hex_digits[(b % 16) + 1]>>

RECURSIVE hex_of(_)
\* std::hex of a number, no width
hex_of(n) == IF n < 16 THEN <<hex_digits[n + 1]>> ELSE Append(hex_of(n \div 16), hex_digits[(n % 16) + 1])

RECURSIVE dec_of(_)
\* std::dec of a number, no width
dec_of(n) == IF n < 10 THEN <<hex_digits[n + 1]>> ELSE Append(dec_of(n \div 10), hex_digits[(n % 10) + 1])

\* std::setfill(c), std::setw(w) of a text
pad_left(s, w, c) == [j \in 1..(IF Len(s) < w THEN w ELSE Len(s)) |->
                        IF Len(s) < w /\ j <= w - Len(s) THEN c
                        ELSE s[j - (IF Len(s) < w THEN w - Len(s) ELSE 0)]]

\* printf("%0<w>x") of a 32-bit word: all digits, leading zeros kept up to width w
hex_word(word, w) ==
    Only({Only({SubSeq(d, IF first > 9 - w THEN 9 - w ELSE first, 8) :
                   first \in {CHOOSE j \in significant : \A i \in significant : j <= i}}) :
             d \in {hex_byte(word[4]) \o hex_byte(word[3]) \o hex_byte(word[2])
                    \o hex_byte(word[1])},
             significant \in {{j \in 1..8 :
                                 hex_byte(word[4 - ((j - 1) \div 2)])[2 - (j % 2)] # "0"}
                              \cup {9 - w}}})

\* format_instruction
format_instruction(inst) ==
    LET sp_ == <<" ">>
        x(word, w) == <<"0", "x">> \o hex_word(word, w)
    IN  Only({
          CASE inst.variant = "inst_op" -> mnemonic
            [] inst.variant = "inst_op_reg" -> mnemonic \o sp_ \o reg_name(inst.a)
            [] inst.variant = "inst_op_imm24" -> mnemonic \o sp_ \o x(inst.addr, 6)
            [] inst.variant = "inst_op_reg_imm16" ->
                  mnemonic \o sp_ \o reg_name(inst.a) \o sp_ \o x(FromNat(inst.imm), 4)
            [] inst.variant = "inst_op_reg_reg" ->
                  mnemonic \o sp_ \o reg_name(inst.a) \o sp_ \o reg_name(inst.b)
            [] inst.variant = "inst_op_reg_reg_imm8" ->
                  mnemonic \o sp_ \o reg_name(inst.a) \o sp_ \o reg_name(inst.b) \o sp_
                  \o x(FromNat(inst.offset), 2)
            [] inst.variant = "inst_op_reg_imm8x2" ->
                  mnemonic \o sp_ \o reg_name(inst.a) \o sp_ \o x(FromNat(inst.v0), 2) \o sp_
                  \o x(FromNat(inst.v1), 2)
            [] inst.variant = "inst_op_reg_reg_reg" ->
                  mnemonic \o sp_ \o reg_name(inst.a) \o sp_ \o reg_name(inst.b) \o sp_
                  \o reg_name(inst.c)
          : mnemonic \in {get_mnemonic(inst.op)} })

\* disasm_options as constructed
default_options ==
    [show_addresses |-> TRUE, show_hex_bytes |-> TRUE, address_format |-> "hex",
     base_address |-> 0]

\* disassembler::format_address
format_address(options_, addr) ==
    IF options_.address_format = "decimal" THEN pad_left(dec_of(addr), 8, " ")
    ELSE <<"0", "x">> \o pad_left(hex_of(addr), 4, "0")

\* disassembler::format_hex_bytes
format_hex_bytes(bytes) ==
    [j \in 1..(2 * Len(bytes)) |-> hex_byte(bytes[(j + 1) \div 2])[2 - (j % 2)]]

\* disassembler::format_annotated_line
format_annotated_line(options_, addr, inst_bytes, assembly) ==
    (IF options_.show_addresses THEN format_address(options_, addr) \o <<":", " ">> ELSE <<>>)
    \o (IF options_.show_hex_bytes THEN format_hex_bytes(inst_bytes) \o <<" ", " ">> ELSE <<>>)
    \o assembly

\* disassembler::disassemble_instruction with raw bytes given
disassemble_instruction(options_, inst, addr, raw_bytes) ==
    Only({IF options_.show_addresses \/ options_.show_hex_bytes
          THEN Ok(format_annotated_line(options_, addr, raw_bytes, assembly))
          ELSE Ok(assembly)
          : assembly \in {format_instruction(inst)}})

\* decode_error_message
decode_error_message(err) ==
    CASE err = "invalid_opcode" -> <<"i", "n", "v", "a", "l", "i", "d", " ", "o", "p", "c", "o", "d", "e">>
      [] err = "invalid_register" -> <<"i", "n", "v", "a", "l", "i", "d", " ", "r", "e", "g", "i", "s", "t", "e", "r">>
      [] err = "malformed_instruction" -> <<"m", "a", "l", "f", "o", "r", "m", "e", "d", " ", "i", "n", "s", "t", "r", "u", "c", "t", "i", "o", "n">>
      [] OTHER -> <<"u", "n", "k", "n", "o", "w", "n", " ", "e", "r", "r", "o", "r">>

\* codec::decode_bytes of the four bytes at a place of a stream
decode_bytes(bytes, i) == codec_decode(SubSeq(bytes, i, i + 3))

\* the disasm_entry made of the four bytes at place i: its text when decoding gave err
entry_error_msg(bytes, i, err) ==
    <<";", " ", "E", "R", "R", "O", "R", ":", " ">> \o decode_error_message(err)
    \o <<" ", "(", "0", "x">> \o hex_word(SubSeq(bytes, i, i + 3), 8) \o <<" ", "=", " ">>
    \o hex_byte(bytes[i]) \o <<" ">> \o hex_byte(bytes[i + 1]) \o <<" ">>
    \o hex_byte(bytes[i + 2]) \o <<" ">> \o hex_byte(bytes[i + 3]) \o <<")">>

RECURSIVE entry_lines(_, _, _, _)
\* the output loop over the entries from entry k on, entries counted from 0
entry_lines(options_, bytes, base, k) ==
    IF k >= Len(bytes) \div 4 THEN <<>>
    ELSE Only({(IF ~decoded.ok
                THEN format_address(options_, base + 4 * k) \o <<":", " ">>
                     \o entry_error_msg(bytes, 4 * k + 1, decoded.error)
                ELSE disassemble_instruction(options_, decoded.value, base + 4 * k,
                                             SubSeq(bytes, 4 * k + 1, 4 * k + 4)).value)
               \o (IF k < (Len(bytes) \div 4) - 1 THEN <<"\n">> ELSE <<>>)
               \o entry_lines(options_, bytes, base, k + 1)
               : decoded \in {decode_bytes(bytes, 4 * k + 1)}})

\* disassembler::disassemble_bytes had it stopped at the first word it cannot decode
disassemble_bytes_strict(options_, bytes, fmt) ==
    IF bytes = <<>> THEN Ok(<<>>)
    ELSE IF Len(bytes) % 4 # 0 THEN Err("invalid_size")
    ELSE IF \E k \in 0..((Len(bytes) \div 4) - 1) : ~decode_bytes(bytes, 4 * k + 1).ok
    THEN Err("invalid_instruction")
    ELSE Ok(entry_lines(options_, bytes, options_.base_address, 0))

\* disassembler::disassemble_bytes
disassemble_bytes(options_, bytes, fmt) ==
    IF bytes = <<>> THEN Ok(<<>>)
    ELSE IF Len(bytes) % 4 # 0 THEN Err("invalid_size")
    ELSE Ok((IF fmt = "annotated"
             THEN <<";", " ", "r", "a", "w", " ", "b", "y", "t", "e", "s", " ", "d", "i", "s", "a", "s", "s", "e", "m", "b", "l", "y", "\n">>
                  \o <<";", " ", "b", "a", "s", "e", " ", "a", "d", "d", "r", "e", "s", "s", ":", " ", "0", "x">> \o hex_of(options_.base_address) \o <<"\n">>
                  \o <<";", " ", "s", "i", "z", "e", ":", " ">> \o dec_of(Len(bytes)) \o <<" ", "b", "y", "t", "e", "s", " ", "(">>
                  \o dec_of(Len(bytes) \div 4) \o <<" ", "i", "n", "s", "t", "r", "u", "c", "t", "i", "o", "n", "s", ")", "\n", "\n">>
             ELSE <<>>)
            \o entry_lines(options_, bytes, options_.base_address, 0))

\* the lines of the data section, 16 bytes a line, from byte i on (counted from 0)
RECURSIVE data_lines(_, _, _, _)
data_lines(options_, data, data_addr, i) ==
    LET line_end == IF i + 16 < Len(data) THEN i + 16 ELSE Len(data)
    IN  IF i >= Len(data) THEN <<>>
        ELSE format_address(options_, data_addr + i) \o <<":", " ">>
             \o format_hex_bytes(SubSeq(data, i + 1, line_end))
             \o (IF i + 16 < Len(data) THEN <<"\n">> ELSE <<>>)
             \o data_lines(options_, data, data_addr, i + 16)

\* disassembler::disassemble_object
disassemble_object(options_, obj, fmt) ==
    IF obj.code = <<>> THEN Ok(<<>>)
    ELSE IF Len(obj.code) % 4 # 0 THEN Err("invalid_size")
    ELSE Ok((IF fmt = "annotated"
             THEN <<";", " ", "i", "r", "r", "e", " ", "o", "b", "j", "e", "c", "t", " ", "f", "i", "l", "e", " ", "d", "i", "s", "a", "s", "s", "e", "m", "b", "l", "y", "\n">>
                  \o <<";", " ", "e", "n", "t", "r", "y", " ", "p", "o", "i", "n", "t", ":", " ", "0", "x">> \o hex_word(obj.entry_offset, 1) \o <<"\n">>
                  \o <<";", " ", "c", "o", "d", "e", " ", "s", "i", "z", "e", ":", " ">> \o dec_of(Len(obj.code)) \o <<" ", "b", "y", "t", "e", "s", " ", "(">>
                  \o dec_of(Len(obj.code) \div 4) \o <<" ", "i", "n", "s", "t", "r", "u", "c", "t", "i", "o", "n", "s", ")", "\n">>
                  \o (IF obj.data # <<>>
                      THEN <<";", " ", "d", "a", "t", "a", " ", "s", "i", "z", "e", ":", " ">> \o dec_of(Len(obj.data)) \o <<" ", "b", "y", "t", "e", "s", "\n">>
                      ELSE <<>>)
                  \o <<"\n">>
             ELSE <<>>)
            \o entry_lines(options_, obj.code, 0, 0)
            \o (IF obj.data # <<>> /\ fmt = "annotated"
                THEN <<"\n", "\n", ";", " ", "d", "a", "t", "a", " ", "s", "e", "c", "t", "i", "o", "n", " ", "(">> \o dec_of(Len(obj.data)) \o <<" ", "b", "y", "t", "e", "s", ")", "\n">>
                     \o data_lines(options_, obj.data, Len(obj.code), 0)
                ELSE <<>>))

-----------------------------------------------------------------------------
(* Disassembling byte streams and object files, and assembling the text    *)
(* that comes out.                                                         *)

\* byte streams hold at most this many words
MaxWords == 2

\* the words of the streams: instructions of every format, a word with an opcode the
\* table lacks and a word with a register out of range
DisasmWords ==
    {encode_bytes(make_op(opcode.nop)),
     encode_bytes(make_op_reg(opcode.jmp, reg.r1)),
     encode_bytes(make_op_imm24(opcode.jmi, <<86, 52, 18, 0>>)),
     encode_bytes(make_op_reg_imm16(opcode.set, reg.r0, 42)),
     encode_bytes(make_op_reg_reg(opcode.mov, reg.r1, reg.r2)),
     encode_bytes(make_op_reg_reg_imm8(opcode.ldw, reg.r1, reg.sp, 8)),
     encode_bytes(make_op_reg_imm8x2(opcode.sia, reg.r2, 18, 52)),
     encode_bytes(make_op_reg_reg_reg(opcode.add, reg.r0, reg.r1, reg.r2)),
     <<0, 0, 0, 254>>,
     <<0, 0, 255, 33>>}

RECURSIVE stream_bytes(_)
stream_bytes(words) == IF words = <<>> THEN <<>> ELSE Head(words) \o stream_bytes(Tail(words))

\* whole streams, and streams cut short by a byte
DisasmStreams ==
    LET whole == {stream_bytes(f) : f \in UNION {[1..n -> DisasmWords] : n \in 0..MaxWords}}
    IN  whole \cup {SubSeq(b, 1, Len(b) - 1) : b \in whole \ {<<>>}}

DisasmOptions ==
    {[default_options EXCEPT !.show_addresses = a, !.show_hex_bytes = h] : a \in BOOLEAN, h \in BOOLEAN}

InitDisasm ==
    /\ VmIdle
    /\ cx = [phase |-> "idle"]
    /\ ox \in {[phase |-> "bytes", bytes |-> b, options_ |-> o, fmt |-> f, data |-> d] :
                  b \in DisasmStreams, o \in DisasmOptions, f \in {"basic", "annotated"},
                  d \in {<<>>, <<222, 173>>}}

\* disassembler::disassemble_bytes(bytes, fmt)
DisassembleBytes ==
    /\ ox.phase = "bytes"
    /\ ox.data = <<>>
    /\ ox' = [ox EXCEPT !.phase = "text"] @@
             [of |-> "bytes", r |-> disassemble_bytes(ox.options_, ox.bytes, ox.fmt)]
    /\ UNCHANGED <<vmvars, cx>>

\* disassembler::disassemble_object(obj, fmt) on an object with the bytes as its code
DisassembleObject ==
    /\ ox.phase = "bytes"
    /\ ox' = [ox EXCEPT !.phase = "text"] @@
             [of |-> "object",
              r |-> disassemble_object(ox.options_,
                                       [entry_offset |-> Zero32, code |-> ox.bytes, data |-> ox.data],
                                       ox.fmt)]
    /\ UNCHANGED <<vmvars, cx>>

\* assembler::assemble on the text the disassembler returned
Reassemble ==
    /\ ox.phase = "text"
    /\ ox.r.ok
    /\ ox' = [ox EXCEPT !.phase = "reassembled"] @@ [back |-> assemble(ox.r.value)]
    /\ UNCHANGED <<vmvars, cx>>

NextDisasm == DisassembleBytes \/ DisassembleObject \/ Reassemble

SpecDisasm == InitDisasm /\ [][NextDisasm]_vars

-----------------------------------------------------------------------------
(* Instruction lines with an immediate in a field of each width, through   *)
(* action<instruction> and through assemble.                               *)

\* immediates as written, each with the 32-bit value it denotes: the ends of the
\* unsigned and of the negative range of 8, 16 and 24 bits, and their neighbours
ImmediateTexts ==
    {[text |-> <<"0">>, value |-> <<0, 0, 0, 0>>],
     [text |-> <<"1", "2", "7">>, value |-> <<127, 0, 0, 0>>],
     [text |-> <<"1", "2", "8">>, value |-> <<128, 0, 0, 0>>],
     [text |-> <<"2", "5", "5">>, value |-> <<255, 0, 0, 0>>],
     [text |-> <<"2", "5", "6">>, value |-> <<0, 1, 0, 0>>],
     [text |-> <<"$", "f", "f">>, value |-> <<255, 0, 0, 0>>],
     [text |-> <<"$", "1", "0", "0">>, value |-> <<0, 1, 0, 0>>],
     [text |-> <<"3", "2", "7", "6", "7">>, value |-> <<255, 127, 0, 0>>],
     [text |-> <<"3", "2", "7", "6", "8">>, value |-> <<0, 128, 0, 0>>],
     [text |-> <<"6", "5", "5", "3", "5">>, value |-> <<255, 255, 0, 0>>],
     [text |-> <<"6", "5", "5", "3", "6">>, value |-> <<0, 0, 1, 0>>],
     [text |-> <<"$", "F", "F", "F", "F">>, value |-> <<255, 255, 0, 0>>],
     [text |-> <<"$", "1", "0", "0", "0", "0">>, value |-> <<0, 0, 1, 0>>],
     [text |-> <<"8", "3", "8", "8", "6", "0", "7">>, value |-> <<255, 255, 127, 0>>],
     [text |-> <<"8", "3", "8", "8", "6", "0", "8">>, value |-> <<0, 0, 128, 0>>],
     [text |-> <<"1", "6", "7", "7", "7", "2", "1", "5">>, value |-> <<255, 255, 255, 0>>],
     [text |-> <<"1", "6", "7", "7", "7", "2", "1", "6">>, value |-> <<0, 0, 0, 1>>],
     [text |-> <<"$", "f", "f", "f", "f", "f", "f">>, value |-> <<255, 255, 255, 0>>],
     [text |-> <<"$", "1", "0", "0", "0", "0", "0", "0">>, value |-> <<0, 0, 0, 1>>],
     [text |-> <<"#", "-", "1">>, value |-> <<255, 255, 255, 255>>],
     [text |-> <<"#", "-", "1", "2", "8">>, value |-> <<128, 255, 255, 255>>],
     [text |-> <<"#", "-", "1", "2", "9">>, value |-> <<127, 255, 255, 255>>],
     [text |-> <<"#", "-", "3", "2", "7", "6", "8">>, value |-> <<0, 128, 255, 255>>],
     [text |-> <<"#", "-", "3", "2", "7", "6", "9">>, value |-> <<255, 127, 255, 255>>],
     [text |-> <<"#", "-", "8", "3", "8", "8", "6", "0", "8">>, value |-> <<0, 0, 128, 255>>],
     [text |-> <<"#", "-", "8", "3", "8", "8", "6", "0", "9">>, value |-> <<255, 255, 127, 255>>],
     [text |-> <<"$", "-", "1">>, value |-> <<255, 255, 255, 255>>],
     [text |-> <<"$", "-", "8", "0">>, value |-> <<128, 255, 255, 255>>],
     [text |-> <<"$", "-", "8", "1">>, value |-> <<127, 255, 255, 255>>],
     [text |-> <<"$", "f", "f", "f", "f", "f", "f", "8", "0">>, value |-> <<128, 255, 255, 255>>],
     [text |-> <<"$", "f", "f", "f", "f", "f", "f", "7", "f">>, value |-> <<127, 255, 255, 255>>],
     [text |-> <<"4", "2", "9", "4", "9", "6", "7", "2", "9", "5">>, value |-> <<255, 255, 255, 255>>],
     [text |-> <<"4", "2", "9", "4", "9", "6", "7", "1", "6", "8">>, value |-> <<128, 255, 255, 255>>],
     [text |-> <<"4", "2", "9", "4", "9", "6", "7", "1", "6", "7">>, value |-> <<127, 255, 255, 255>>],
     [text |-> <<"2", "1", "4", "7", "4", "8", "3", "6", "4", "8">>, value |-> <<0, 0, 0, 128>>],
     [text |-> <<"#", "4", "2">>, value |-> <<42, 0, 0, 0>>]}

\* lines with a place for an immediate: the tokens before and after it, the width of the
\* field it goes to and the bytes of the first emitted word that hold the field
ImmediateLines ==
    {[before |-> <<"s", "e", "t", " ", "r", "0", " ">>, after |-> <<>>, bits |-> 16, at |-> 1],
     [before |-> <<"j", "m", "i", " ">>, after |-> <<>>, bits |-> 24, at |-> 1],
     [before |-> <<"l", "d", "w", " ", "r", "1", " ", "r", "2", " ">>, after |-> <<>>,
      bits |-> 8, at |-> 1],
     [before |-> <<"s", "i", "a", " ", "r", "1", " ">>, after |-> <<" ", "0">>, bits |-> 8, at |-> 2],
     [before |-> <<"s", "i", "a", " ", "r", "1", " ", "0", " ">>, after |-> <<>>, bits |-> 8, at |-> 1],
     [before |-> <<"a", "d", "i", " ", "r", "0", " ", "r", "1", " ">>, after |-> <<>>,
      bits |-> 16, at |-> 1]}

\* the text of a line with the immediate in its place
line_text(line, imm) == line.before \o imm.text \o line.after

\* parse_state as constructed
parse_state == [items |-> <<>>, entry_point |-> <<>>, current_section |-> <<"c", "o", "d", "e">>,
                errors |-> <<>>]

InitImmediate ==
    /\ VmIdle
    /\ cx = [phase |-> "idle"]
    /\ ox \in {[phase |-> "line", line |-> l, imm |-> i] : l \in ImmediateLines, i \in ImmediateTexts}

\* action<grammar::instruction>::apply on the line, on a fresh parse_state
ProcessLine ==
    /\ ox.phase = "line"
    /\ ox' = [phase |-> "processed", line |-> ox.line, imm |-> ox.imm,
              s |-> action("instruction", line_text(ox.line, ox.imm), parse_state)]
    /\ UNCHANGED <<vmvars, cx>>

\* assembler::assemble of the line
AssembleLine ==
    /\ ox.phase = "line"
    /\ ox' = [phase |-> "assembled", line |-> ox.line, imm |-> ox.imm,
              r |-> assemble(Append(line_text(ox.line, ox.imm), "\n"))]
    /\ UNCHANGED <<vmvars, cx>>

NextImmediate == ProcessLine \/ AssembleLine

SpecImmediate == InitImmediate /\ [][NextImmediate]_vars

-----------------------------------------------------------------------------
(* The console device on its own: commands and resets in any order, with   *)
(* the calls made kept beside the device.                                  *)

\* calls made on the device at most
MaxCommands == 3

\* commands tried: putchar, puts, clear, one past them, and two whose low byte is a
\* command's
ConsoleCommands == {Zero32, FromNat(1), FromNat(2), FromNat(3), <<0, 1, 0, 0>>, <<2, 0, 0, 1>>}

\* arguments tried: a character, and a word with bits above its low byte
ConsoleArguments == {<<65, 0, 0, 0>>, <<66, 1, 0, 128>>}

InitConsole ==
    /\ VmIdle
    /\ cx = [phase |-> "idle"]
    /\ ox = [phase |-> "console", output_ |-> <<>>, calls |-> <<>>]

\* console_device::handle_command(device_id, command, argument)
HandleCommand ==
    /\ ox.phase = "console"
    /\ Len(ox.calls) < MaxCommands
    /\ \E command \in ConsoleCommands, argument \in ConsoleArguments :
          LET r == handle_command(ox.output_, command, argument)
          IN  ox' = [phase |-> "console", output_ |-> r[2],
                     calls |-> Append(ox.calls, [name |-> "handle_command",
                                                 command |-> command,
                                                 argument |-> argument, ret |-> r[1]])]
    /\ UNCHANGED <<vmvars, cx>>

\* console_device::reset
ResetConsole ==
    /\ ox.phase = "console"
    /\ Len(ox.calls) < MaxCommands
    /\ ox' = [phase |-> "console", output_ |-> <<>>,
              calls |-> Append(ox.calls, [name |-> "reset"])]
    /\ UNCHANGED <<vmvars, cx>>

NextConsole == HandleCommand \/ ResetConsole

SpecConsole == InitConsole /\ [][NextConsole]_vars

-----------------------------------------------------------------------------
(* Pseudo-instruction lines: through action<instruction>, and assembled,   *)
(* loaded and stepped through.                                             *)

\* the registers written in the lines
PseudoRegs == {reg.r1, reg.r2, reg.at}

\* the immediates written in the lines, each with the 32-bit value it denotes
PseudoImmediates ==
    {[text |-> <<"0">>, value |-> <<0, 0, 0, 0>>],
     [text |-> <<"1", "0">>, value |-> <<10, 0, 0, 0>>],
     [text |-> <<"6", "5", "5", "3", "5">>, value |-> <<255, 255, 0, 0>>],
     [text |-> <<"6", "5", "5", "3", "6">>, value |-> <<0, 0, 1, 0>>],
     [text |-> <<"#", "-", "1">>, value |-> <<255, 255, 255, 255>>],
     [text |-> <<"#", "-", "3", "2", "7", "6", "8">>, value |-> <<0, 128, 255, 255>>]}

\* the values rB holds before the instructions run
PseudoOlds == {<<0, 0, 0, 0>>, <<5, 0, 0, 0>>, <<255, 255, 255, 255>>, <<68, 51, 34, 145>>}

\* the operands written after the mnemonic: the three of the form, or fewer, or more
pseudo_operands(l) ==
    CASE l.shape = "full" -> <<reg_name(l.a), reg_name(l.b), l.imm.text>>
      [] l.shape = "no_imm" -> <<reg_name(l.a), reg_name(l.b)>>
      [] l.shape = "one_more" -> <<reg_name(l.a), reg_name(l.b), l.imm.text, l.imm.text>>
      [] l.shape = "none" -> <<>>

RECURSIVE spaced(_)
\* tokens, a blank before each
spaced(toks) == IF toks = <<>> THEN <<>> ELSE <<" ">> \o Head(toks) \o spaced(Tail(toks))

\* the text of the line, without its line feed
pseudo_text(l) == l.mnemonic \o spaced(pseudo_operands(l))

PseudoLines ==
    {[mnemonic |-> m, a |-> a, b |-> b, imm |-> i, shape |-> s, old |-> o] :
        m \in {<<"a", "d", "i">>, <<"s", "b", "i">>}, a \in PseudoRegs, b \in PseudoRegs,
        i \in PseudoImmediates, s \in {"full", "no_imm", "one_more", "none"}, o \in PseudoOlds}

InitPseudo ==
    /\ VmIdle
    /\ cx = [phase |-> "idle"]
    /\ ox \in {[phase |-> "line", line |-> l] : l \in PseudoLines}

\* action<grammar::instruction>::apply on the line, on a fresh parse_state
ProcessPseudo ==
    /\ ox.phase = "line"
    /\ ox' = [phase |-> "processed", line |-> ox.line,
              s |-> action("instruction", pseudo_text(ox.line), parse_state)]
    /\ UNCHANGED <<vmvars, cx>>

\* assembler::assemble of the line
AssemblePseudo ==
    /\ ox.phase = "line"
    /\ ox' = [phase |-> "assembled", line |-> ox.line,
              r |-> assemble(Append(pseudo_text(ox.line), "\n"))]
    /\ UNCHANGED <<vmvars, cx>>

\* set_register(rB, old), load_program of the assembled object, and step() twice, on a
\* vm of its own
RunPseudo ==
    /\ ox.phase = "assembled" /\ ox.r.ok
    /\ Len(ox.r.value.code) + Len(ox.r.value.data) <= MemSize
    /\ \E u \in UBChoices :
          LET m0 == [regs |-> [registers_clear EXCEPT ![ox.line.b] = ox.line.old,
                                                      ![reg.pc] = ox.r.value.entry_offset,
                                                      ![reg.sp] = FromNat(MemSize - 4)],
                     mem |-> load_data(load_data(memory_clear, 0, ox.r.value.code),
                                       Len(ox.r.value.code), ox.r.value.data),
                     state |-> "running", console |-> <<>>,
                     instruction_count |-> 0, cycle_count |-> 0]
              m2 == Only({machine_of(step(m1, u)) : m1 \in {machine_of(step(m0, u))}})
          IN  ox' = [phase |-> "ran", line |-> ox.line, r |-> ox.r, m |-> m2]
    /\ UNCHANGED <<vmvars, cx>>

NextPseudo == ProcessPseudo \/ AssemblePseudo \/ RunPseudo

SpecPseudo == InitPseudo /\ [][NextPseudo]_vars

-----------------------------------------------------------------------------
(* Properties of the vm, read off the record of the last call.             *)

\* the pc the last step started from
BeforePc == call.before.regs[reg.pc]

\* the last call was a step that fetched a word: the vm was running, the pc aligned and
\* the four bytes at the pc inside memory
Fetches ==
    /\ call.name = "step"
    /\ call.before.state = "running"
    /\ BeforePc[1] % 4 = 0
    /\ IsSmall(BeforePc) /\ Low16(BeforePc) + 4 <= MemSize

\* the word that step fetched
RawWord ==
    LET k == Low16(BeforePc)
    IN  <<call.before.mem[k], call.before.mem[k + 1], call.before.mem[k + 2],
          call.before.mem[k + 3]>>

\* the last call was a step that executed an instruction
Executes == Fetches /\ codec_decode(RawWord).ok

\* the instruction that step executed
Executed == codec_decode(RawWord).value

\* the error callbacks the last call made
ErrorsReported ==
    {call.events[k].info : k \in {j \in DOMAIN call.events : call.events[j].cb = "on_error"}}

\* C1: a step() or a run() on a vm that is halted or in error leaves the registers,
\* memory, execution state and counters as they were and makes no callback of any kind,
\* and step() returns false; so a vm in error is still in error after the call.
StoppedVmIgnoresCalls ==
    (call.name \in {"step", "run"} /\ call.before.state # "running") =>
        /\ ~crashed
        /\ Machine = call.before
        /\ call.events = <<>>
        /\ call.name = "step" => ~call.ret

\* a step was made on a vm in error that has an error handler and observers
StoppedVmStepped ==
    /\ call.name = "step"
    /\ call.before.state = "error"
    /\ on_error /\ observers > 0
    /\ state = "error"

\* C2: after a step that executes jmi the pc is its imm24, and after a step that
\* executes jmp rA the pc is the value rA held before the step, whatever the pc and
\* the target are.
JumpSetsPc ==
    (Executes /\ ~crashed) =>
        /\ Executed.op = opcode.jmi => regs[reg.pc] = Executed.addr
        /\ Executed.op = opcode.jmp => regs[reg.pc] = call.before.regs[Executed.a]

\* the effective address of the load or store the last step executed
AccessAddress == Add32(call.before.regs[Executed.b], SignExtend8(Executed.offset))

\* the bytes the load or store the last step executed is wide
AccessWidth == IF Executed.op \in {opcode.ldw, opcode.stw} THEN 4 ELSE 1

\* the last step executed a load or store
ExecutesAccess ==
    Executes /\ Executed.op \in {opcode.ldw, opcode.stw, opcode.ldb, opcode.stb}

\* the bytes [E, E + width) all lie inside memory
AccessInside == IsSmall(AccessAddress) /\ Low16(AccessAddress) + AccessWidth <= MemSize

\* C3: a ldw, stw, ldb or stb whose bytes [E, E + width) are not all inside memory ends
\* the step in state error with kind invalid_memory_access, with memory and rA as they
\* were.
OutsideAccessFaults ==
    (ExecutesAccess /\ ~AccessInside) =>
        /\ ~crashed
        /\ state = "error"
        /\ on_error => \E e \in ErrorsReported : e.type = "invalid_memory_access"
        /\ mem = call.before.mem
        /\ regs[Executed.a] = call.before.regs[Executed.a]

\* the instructions a returned run executed
RunExecuted == instruction_count - call.before.instruction_count

\* C4: run(max) with max > 0 executes at most max instructions, and exactly max when
\* the vm is still running as it returns: it stops short only when a step left the
\* running state.
RunHonoursLimit ==
    (call.name = "run" /\ call.max_instructions > 0 /\ ~crashed) =>
        /\ RunExecuted <= call.max_instructions
        /\ state = "running" => RunExecuted = call.max_instructions
        /\ RunExecuted < call.max_instructions => state # "running"

\* a run of two instructions returned with the vm still running
RunCutShort ==
    /\ call.name = "run" /\ call.max_instructions = 2 /\ ~crashed
    /\ call.before.state = "running"
    /\ state = "running"
    /\ RunExecuted = 2

IsObserverCall(e) ==
    e.cb \in {"pre_execute", "post_execute", "on_memory_read", "on_memory_write"}

\* the observer callbacks the last call made, in order
ObserverCalls == SelectSeq(call.events, IsObserverCall)

\* calls (g - 1) * observers + 1 .. g * observers of seq are callback cb on observer
\* 1, 2, ... in list order
EveryObserver(seq, g, cb) ==
    \A k \in 1..observers :
        /\ seq[(g - 1) * observers + k].cb = cb
        /\ seq[(g - 1) * observers + k].observer = k

ExecutionErrorCarriesWord ==
    (Executes /\ ~crashed) =>
        \A e \in ErrorsReported : e.pc = BeforePc /\ e.instruction_word = RawWord

\* C7: after a step that does not fault the pc is the old pc + 4 or a value the
\* instruction wrote to the pc register or, after hlt, the old pc (the address of the
\* hlt); it is the old pc + 4 when the instruction neither halted nor wrote the pc
\* register.
PcAdvanceRule ==
    (call.name = "step" /\ call.before.state = "running" /\ ~crashed /\ state # "error") =>
        /\ Executes
        /\ Executed.op = opcode.hlt => state = "halted" /\ regs[reg.pc] = BeforePc
        /\ Executed.op # opcode.hlt =>
                /\ state = "running"
                /\ \/ regs[reg.pc] = Add32(BeforePc, FromNat(4))
                   \/ regs[reg.pc] \in call.pc_writes
                /\ call.pc_writes = {} => regs[reg.pc] = Add32(BeforePc, FromNat(4))

\* a step executed a jump that took the pc somewhere other than the next instruction
JumpTaken ==
    /\ call.name = "step" /\ call.before.state = "running" /\ ~crashed /\ state = "running"
    /\ regs[reg.pc] \in call.pc_writes
    /\ regs[reg.pc] # Add32(BeforePc, FromNat(4))

-----------------------------------------------------------------------------
(* Properties of the codec.                                                *)

\* the field slots the format of w's opcode leaves unused are zero
UnusedSlotsZero(w) ==
    CASE get_format(w[4]) = "op" -> w[1] = 0 /\ w[2] = 0 /\ w[3] = 0
      [] get_format(w[4]) = "op_reg" -> w[1] = 0 /\ w[2] = 0
      [] get_format(w[4]) = "op_reg_reg" -> w[1] = 0
      [] OTHER -> TRUE

\* C8 as stated: for every word w that decode accepts, encode(decode(w)) = w.
EncodeOfDecodeIsWord ==
    cx.phase = "reencoded" => cx.e = cx.w

\* C8: for every word w that decode accepts and whose field slots unused by its opcode's
\* format are zero, encode(decode(w)) = w.
EncodeOfDecodeIsCanonicalWord ==
    (cx.phase = "reencoded" /\ UnusedSlotsZero(cx.w)) => cx.e = cx.w

\* a word of two registers, its unused slot zero, was decoded and encoded again
CanonicalWordReencoded ==
    /\ cx.phase = "reencoded"
    /\ get_format(cx.w[4]) = "op_reg_reg"
    /\ UnusedSlotsZero(cx.w)
    /\ cx.w[2] # cx.w[3]

\* the variant the format of i's opcode declares
DeclaredVariant(i) ==
    CASE get_format(i.op) = "op" -> "inst_op"
      [] get_format(i.op) = "op_reg" -> "inst_op_reg"
      [] get_format(i.op) = "op_imm24" -> "inst_op_imm24"
      [] get_format(i.op) = "op_reg_imm16" -> "inst_op_reg_imm16"
      [] get_format(i.op) = "op_reg_reg" -> "inst_op_reg_reg"
      [] get_format(i.op) = "op_reg_reg_imm8" -> "inst_op_reg_reg_imm8"
      [] get_format(i.op) = "op_reg_imm8x2" -> "inst_op_reg_imm8x2"
      [] get_format(i.op) = "op_reg_reg_reg" -> "inst_op_reg_reg_reg"

\* i has the variant its opcode declares, registers in 0x00..0x24 and a 24-bit
\* immediate below 2^24
InRange(i) ==
    /\ i.variant = DeclaredVariant(i)
    /\ i.variant # "inst_op" /\ i.variant # "inst_op_imm24" => i.a <= reg.sp
    /\ i.variant \in {"inst_op_reg_reg", "inst_op_reg_reg_imm8", "inst_op_reg_reg_reg"} =>
            i.b <= reg.sp
    /\ i.variant = "inst_op_reg_reg_reg" => i.c <= reg.sp
    /\ i.variant = "inst_op_imm24" => i.addr[4] = 0

\* C9: for every in-range instruction i, decode(encode(i)) succeeds and is i field for
\* field, and encode(decode(encode(i))) = encode(i).
DecodeOfEncodeIsInstruction ==
    (cx.phase \in {"redecoded", "looped"} /\ InRange(cx.i)) =>
        /\ cx.d.ok
        /\ cx.d.value = cx.i
        /\ cx.phase = "looped" => cx.e2 = cx.e

\* an in-range set / sup with a two-byte immediate went round the codec
ImmediateWentRound ==
    /\ cx.phase = "looped"
    /\ InRange(cx.i)
    /\ cx.i.variant = "inst_op_reg_imm16"
    /\ cx.i.imm = 4660
    /\ cx.i.a = reg.sp

-----------------------------------------------------------------------------
(* Properties of the object file.                                          *)

\* the last object was written and read back as itself
ReadBackSame == ox.r.ok /\ ox.r.value = ox.o

\* C10 as stated: an object whose entry_offset is a multiple of 4 and at most the code
\* size (its sections at most 16 MiB each) is read back as itself from its to_binary.
ObjectRoundTripUpToCodeSize ==
    (/\ ox.phase = "read"
     /\ ox.o.entry_offset[1] % 4 = 0
     /\ ~Lt32(size_u32(Len(ox.o.code)), ox.o.entry_offset)) => ReadBackSame

\* C10: an object whose entry_offset is a multiple of 4 and below the code size, or 0
\* with an empty code section (its sections at most 16 MiB each), is read back as
\* itself from its to_binary.
ObjectRoundTripBelowCodeSize ==
    (/\ ox.phase = "read"
     /\ ox.o.entry_offset[1] % 4 = 0
     /\ \/ Lt32(ox.o.entry_offset, size_u32(Len(ox.o.code)))
        \/ ox.o.entry_offset = Zero32 /\ ox.o.code = <<>>) => ReadBackSame

\* an object with code, data and an entry at its second instruction was read back
ObjectWithEntryReadBack ==
    /\ ox.phase = "read"
    /\ ox.o.entry_offset = FromNat(4)
    /\ Len(ox.o.code) = 8
    /\ Len(ox.o.data) = 2
    /\ ox.r.ok

-----------------------------------------------------------------------------
(* Properties of the loader.                                               *)

\* the messages of from_binary's checks, in the order the specification lists them
LoaderMessages ==
    <<"error: empty file", "error: file too small", "error: invalid magic bytes",
      "error: unsupported version", "error: code section too large",
      "error: data section too large", "error: file size mismatch",
      "error: entry point is outside code section", "error: entry point is not 4-byte aligned">>

\* the header field of 4 bytes at offset k of b, zero when b is too short to hold it
FieldAt(b, k) == IF Len(b) >= k + 4 THEN <<b[k + 1], b[k + 2], b[k + 3], b[k + 4]>> ELSE Zero32

\* check k of the list fails on the bytes b
CheckFails(b, k) ==
    CASE k = 1 -> Len(b) = 0
      [] k = 2 -> Len(b) < 24
      [] k = 3 -> FieldAt(b, 0) # <<82, 71, 86, 77>>
      [] k = 4 -> Len(b) < 6 \/ b[5] # 1 \/ b[6] # 0
      [] k = 5 -> Lt32(<<0, 0, 0, 1>>, FieldAt(b, 12))
      [] k = 6 -> Lt32(<<0, 0, 0, 1>>, FieldAt(b, 16))
      [] k = 7 -> Len(b) # 24 + ToNat(FieldAt(b, 12)) + ToNat(FieldAt(b, 16))
      [] k = 8 -> FieldAt(b, 12) # Zero32 /\ ~Lt32(FieldAt(b, 8), FieldAt(b, 12))
      [] k = 9 -> FieldAt(b, 8)[1] % 4 # 0

\* the checks that fail on b
FailingChecks(b) == {k \in DOMAIN LoaderMessages : CheckFails(b, k)}

\* the earliest of a non-empty set of checks
Earliest(ks) == CHOOSE k \in ks : \A j \in ks : k <= j

\* C11: from_binary accepts the bytes that fail no check, and answers any others with
\* the message of the earliest check they fail in the order empty, too small, magic,
\* version, code size, data size, total length, entry inside the code, entry alignment.
FirstFailingCheckReported ==
    ox.phase = "loaded" =>
        IF FailingChecks(ox.binary) = {} THEN ox.r.ok
        ELSE ~ox.r.ok /\ ox.r.error = LoaderMessages[Earliest(FailingChecks(ox.binary))]

\* a whole file with a wrong magic, a wrong version and an odd entry was answered with
\* the magic message
WrongMagicReportedFirst ==
    /\ ox.phase = "loaded"
    /\ {3, 4, 9} \subseteq FailingChecks(ox.binary)
    /\ ~CheckFails(ox.binary, 2)
    /\ ~ox.r.ok
    /\ ox.r.error = LoaderMessages[3]

-----------------------------------------------------------------------------
(* The symbol table and the resolver (SpecSymbols).                        *)

\* the size an item takes in pass 1
ItemSize(item) ==
    CASE item.kind = "label_def" -> 0
      [] item.kind \in {"instruction", "unresolved_instruction"} -> 4
      [] item.kind = "data_block" -> Len(item.bytes)

RECURSIVE SizeBefore(_, _)
\* the sum of the sizes of the items before place k
SizeBefore(items, k) == IF k <= 1 THEN 0 ELSE SizeBefore(items, k - 1) + ItemSize(items[k - 1])

\* the places of the list that define the label
DefinitionsOf(items, name) ==
    {k \in DOMAIN items : items[k].kind = "label_def" /\ items[k].name = name}

SymbolsBuilt == ox.phase \in {"built", "resolved", "object"} /\ ox.built.result.ok

\* C12: after a successful build every label of the table is bound to the sum of the
\* sizes of the items before its definition: 4 for each instruction, concrete or
\* unresolved, the byte length of each data block, 0 for each label.
LabelBoundToSizeBefore ==
    SymbolsBuilt =>
        /\ \A k \in DOMAIN ox.items :
              ox.items[k].kind = "label_def" => ox.items[k].name \in DOMAIN ox.built.symbols_
        /\ \A name \in DOMAIN ox.built.symbols_ :
              \E k \in DefinitionsOf(ox.items, name) :
                  ox.built.symbols_[name] = FromNat(SizeBefore(ox.items, k))

\* a label bound behind an instruction and a data block
LabelBehindMixedItems ==
    /\ SymbolsBuilt
    /\ Len(ox.items) = 3
    /\ ox.items[1].kind = "unresolved_instruction"
    /\ ox.items[2].kind = "data_block"
    /\ <<"a">> \in DOMAIN ox.built.symbols_
    /\ ox.built.symbols_[<<"a">>] = FromNat(5)

-----------------------------------------------------------------------------
(* Assembling source texts (SpecAssemble).                                 *)

Assembled == ox.phase = "assembled"

\* the codes of the characters the strings of the sources hold
CharCode(c) == CASE c = "h" -> 104 [] c = "i" -> 105 [] OTHER -> 0

\* the bytes one token of a data directive stands for: the characters of a quoted
\* string, 4 little-endian bytes of a number
TokenPayload(tok) ==
    IF tok[1] = "\"" THEN [j \in 1..(Len(tok) - 2) |-> CharCode(tok[j + 1])]
    ELSE parse_immediate(tok).value

RECURSIVE TokensPayload(_)
TokensPayload(toks) ==
    IF toks = <<>> THEN <<>> ELSE TokenPayload(Head(toks)) \o TokensPayload(Tail(toks))

RECURSIVE DataPayload(_)
\* the payloads of the data directives among the lines, in order
DataPayload(lines) ==
    IF lines = <<>> THEN <<>>
    ELSE (IF SubSeq(Head(lines), 1, 2) = <<"%", "d">>
          THEN TokensPayload(Tail(tokens(Head(lines), 1)))
          ELSE <<>>) \o DataPayload(Tail(lines))

\* C13: the data section of the object file assemble returns is the payloads of the
\* data directives of the source in source order, 4 little-endian bytes for a number and
\* the literal bytes for a quoted string.
DataSectionIsPayload ==
    (Assembled /\ ox.r.ok) => ox.r.value.data = DataPayload(ox.lines)


\* the error the validator gives the line when it stands alone, if it gives one
ValidationOf(line) == assembler_parse(line)

FailsValidation(line) ==
    /\ ~ValidationOf(line).ok
    /\ ValidationOf(line).error.error \in {"invalid_instruction", "invalid_register",
                                          "invalid_immediate"}

\* the lines of the source the validator rejects
FailingLines(lines) == {k \in DOMAIN lines : FailsValidation(lines[k])}

\* the column at which the instruction of the line starts
InstructionColumn(line) == star(line, 1, chars.blank)

\* C14: when instructions of the source fail validation, assemble returns the error of
\* the first of them in source order, and the error's line and column (1-based) are the
\* place of that instruction, not the place where parsing ended.
FirstValidationErrorAtItsPlace ==
    (Assembled /\ FailingLines(ox.lines) # {}) =>
        LET k == CHOOSE i \in FailingLines(ox.lines) : \A j \in FailingLines(ox.lines) : i <= j
        IN  /\ ~ox.r.ok
            /\ "error" \in DOMAIN ox.r
            /\ ox.r.error.error = ValidationOf(ox.lines[k]).error.error
            /\ ox.r.error.message = ValidationOf(ox.lines[k]).error.message
            /\ ox.r.error.line = k
            /\ ox.r.error.column = InstructionColumn(ox.lines[k])


\* C15: for every source the grammar accepts assemble returns an object file or an
\* assembly_error; no failure leaves the call outside the result type, also when an
\* op_reg instruction (jmp, cal) is written with an immediate operand.
AssembleReturnsResult ==
    Assembled =>
        /\ "thrown" \notin DOMAIN ox.r
        /\ ox.r.ok => DOMAIN ox.r.value = {"entry_offset", "code", "data"}
        /\ ~ox.r.ok => DOMAIN ox.r.error = {"error", "message", "line", "column"}


LabelLine == <<"a", ":", "\n">>

BifLine == <<"b", "i", "f", " ", "r", "1", " ", "a", " ", "0", "\n">>

\* the sources that hold the label a once and otherwise bif lines only
BifSources(lines) ==
    /\ \A k \in DOMAIN lines : lines[k] \in {LabelLine, BifLine}
    /\ \E k \in DOMAIN lines : lines[k] = BifLine
    /\ \E k \in DOMAIN lines : lines[k] = LabelLine /\ \A j \in DOMAIN lines : lines[j] = LabelLine => j = k

\* the pair `set ad ADDR`, `bve ad r1 0` once for each bif line, ADDR the address of a
BifExpansion(lines) ==
    LET at_a == CHOOSE k \in DOMAIN lines : lines[k] = LabelLine
        addr == FromNat(8 * (at_a - 1))
        bifs == Len(lines) - 1
        pair == encode_bytes(make_op_reg_imm16(opcode.set, reg.ad, Low16(addr)))
                \o encode_bytes(make_op_reg_reg_imm8(opcode.bve, reg.ad, reg.r1, 0))
    IN  [j \in 1..(8 * bifs) |-> pair[((j - 1) % 8) + 1]]

\* C17: the line `bif r ADDR v` assembles without error to exactly two instructions,
\* `set ad ADDR` followed by `bve ad r v`.
BifExpandsToSetAndBve ==
    (Assembled /\ BifSources(ox.lines)) =>
        /\ ox.r.ok
        /\ ox.r.value.code = BifExpansion(ox.lines)

-----------------------------------------------------------------------------
(* The disassembler (SpecDisasm).                                          *)

\* the words of a stream, counted from 0, and whether they decode
WordCount(bytes) == Len(bytes) \div 4

Decodes(bytes, k) == decode_bytes(bytes, 4 * k + 1).ok

AllDecode(bytes) == \A k \in 0..(WordCount(bytes) - 1) : Decodes(bytes, k)

\* the plain lines: format basic, no address and no hex column
PlainLines(o) == o.fmt = "basic" /\ ~o.options_.show_addresses /\ ~o.options_.show_hex_bytes

\* C16: assembling the basic-format disassembly of an object file's code section, all
\* words decodable, yields the code section byte for byte: every operand printed,
\* 0x-prefixed immediates included, is read back as the same field value.
ReassembledCodeIsCode ==
    (/\ ox.phase = "reassembled"
     /\ ox.of = "object"
     /\ PlainLines(ox)
     /\ Len(ox.bytes) % 4 = 0
     /\ AllDecode(ox.bytes)) =>
        /\ ox.back.ok
        /\ ox.back.value.code = ox.bytes


\* the lines of a text: the pieces between its line feeds
LineFeeds(t) == {i \in DOMAIN t : t[i] = "\n"}

LineCount(t) == Cardinality(LineFeeds(t)) + 1

\* line k of a text, lines counted from 0
TextLine(t, k) ==
    LET feed(n) == IF n = 0 THEN 0
                   ELSE IF n > Cardinality(LineFeeds(t)) THEN Len(t) + 1
                   ELSE CHOOSE i \in LineFeeds(t) : Cardinality({j \in LineFeeds(t) : j < i}) = n - 1
    IN  SubSeq(t, feed(k) + 1, feed(k + 1) - 1)

Contains(line, pat) == \E i \in 1..(Len(line) - Len(pat) + 1) : SubSeq(line, i, i + Len(pat) - 1) = pat

EndsWith(line, pat) == Len(line) >= Len(pat) /\ SubSeq(line, Len(line) - Len(pat) + 1, Len(line)) = pat

ErrorMark == <<";", " ", "E", "R", "R", "O", "R", ":", " ">>

BytesDisassembled == ox.phase \in {"text", "reassembled"} /\ ox.of = "bytes"

LaterDefinitions(items) ==
    {k \in DOMAIN items :
        /\ items[k].kind = "label_def"
        /\ \E j \in 1..(k - 1) : items[j].kind = "label_def" /\ items[j].name = items[k].name}

FirstOf(ks) == CHOOSE k \in ks : \A j \in ks : k <= j

BuildDone == ox.phase \in {"built", "resolved", "object"}

\* C19: when a label name is defined twice in the item list the build fails with
\* duplicate_symbol, the name and the location of the later definition, and assemble
\* reports an error of kind undefined_symbol whose message holds "duplicate symbol
\* '<name>'"; a table that was built binds each label name of the list, defined once,
\* to one address.
DuplicateLabelReported ==
    /\ (BuildDone /\ LaterDefinitions(ox.items) # {}) =>
          LET later == ox.items[FirstOf(LaterDefinitions(ox.items))]
          IN  /\ ~ox.built.result.ok
              /\ ox.built.result.error.error = "duplicate_symbol"
              /\ ox.built.result.error.symbol_name = later.name
              /\ ox.built.result.error.location = later.location
              /\ ox.phase = "object" =>
                    /\ ~ox.obj.ok
                    /\ "error" \in DOMAIN ox.obj
                    /\ ox.obj.error.error = "undefined_symbol"
                    /\ ox.obj.error.message = <<"duplicate symbol '", later.name, "'">>
    /\ SymbolsBuilt =>
          /\ LaterDefinitions(ox.items) = {}
          /\ \A name \in DOMAIN ox.built.symbols_ : Cardinality(DefinitionsOf(ox.items, name)) = 1
          /\ \A k \in DOMAIN ox.items :
                ox.items[k].kind = "label_def" => ox.items[k].name \in DOMAIN ox.built.symbols_

\* a label defined at places 1 and 3 of the list and reported with the location of place 3
DuplicateAtThirdPlace ==
    /\ ox.phase = "object"
    /\ LaterDefinitions(ox.items) = {3}
    /\ ox.items[1].kind = "label_def"
    /\ ox.items[1].name = ox.items[3].name
    /\ ox.built.result.error.location = [line |-> 3, column |-> 1]
    /\ ox.obj.error.error = "undefined_symbol"


IsInstructionItem(item) == item.kind \in {"instruction", "unresolved_instruction"}

\* the label an unresolved instruction names
LabelOf(item) ==
    item.operands[CHOOSE k \in DOMAIN item.operands : item.operands[k].is = "std::string"].value

\* the places whose instruction names a label no item defines
UndefinedReferences(items) ==
    {k \in DOMAIN items :
        /\ items[k].kind = "unresolved_instruction"
        /\ DefinitionsOf(items, LabelOf(items[k])) = {}}

\* the pass-1 address of a label the list defines
AddressOf(items, name) == SizeBefore(items, FirstOf(DefinitionsOf(items, name)))

\* the field of a resolved instruction that took the label's place
LabelField(inst) ==
    CASE inst.variant = "inst_op_imm24" -> ToNat(inst.addr)
      [] inst.variant = "inst_op_reg_imm16" -> inst.imm
      [] inst.variant = "inst_op_reg_imm8x2" -> inst.v0

\* the number of values the slot of the field holds
SlotRange(inst) == IF inst.variant = "inst_op_reg_imm8x2" THEN 256 ELSE 0

\* resolution fails with undefined_symbol, naming the label, exactly when an instruction
\* names a label that no item defines
UndefinedExactlyWhenMissing ==
    /\ ox.r.ok <=> UndefinedReferences(ox.items) = {}
    /\ ~ox.r.ok =>
          LET item == ox.items[FirstOf(UndefinedReferences(ox.items))]
          IN  /\ "error" \in DOMAIN ox.r
              /\ ox.r.error.error = "undefined_symbol"
              /\ ox.r.error.symbol_name = LabelOf(item)
              /\ ox.r.error.message = <<"undefined symbol '", LabelOf(item), "'">>

\* the field of every resolved instruction that named a label, against f of the label's
\* address and the instruction
FieldsAre(f(_, _)) ==
    ox.r.ok =>
        LET insts == SelectSeq(ox.items, IsInstructionItem)
        IN  /\ Len(ox.r.value) = Len(insts)
            /\ \A j \in DOMAIN insts :
                  insts[j].kind = "unresolved_instruction" =>
                      LabelField(ox.r.value[j])
                          = f(AddressOf(ox.items, LabelOf(insts[j])), ox.r.value[j])

WholeAddress(addr, inst) == addr

SlotAddress(addr, inst) == IF SlotRange(inst) = 0 THEN addr ELSE addr % SlotRange(inst)

-----------------------------------------------------------------------------
(* Immediate ranges.                                                       *)

\* V <= 2^N - 1 or V >= 2^32 - 2^(N-1), on the bytes of V, low byte first
FitsField(value, bits) ==
    LET n == bits \div 8
    IN  \/ \A j \in (n + 1)..4 : value[j] = 0
        \/ (\A j \in (n + 1)..4 : value[j] = 255) /\ value[n] >= 128

\* V mod 2^N, on the bytes of V
LowBits(value, bits) == [j \in 1..4 |-> IF j <= bits \div 8 THEN value[j] ELSE 0]

\* the field of the given width that starts at byte at of the first word of code
FieldOf(code, at, bits) == [j \in 1..4 |-> IF j <= bits \div 8 THEN code[at + j - 1] ELSE 0]

\* C21: an immediate V in a field of N bits is accepted exactly when V <= 2^N - 1 or
\* V >= 2^32 - 2^(N-1), is rejected with immediate_out_of_range otherwise, and an accepted
\* V stands in the field as V mod 2^N
ImmediateAcceptedExactlyInRange ==
    /\ ox.phase = "processed" =>
          IF FitsField(ox.imm.value, ox.line.bits)
          THEN /\ ox.s.errors = <<>>
               /\ ox.s.items # <<>>
               /\ ox.s.items[1].kind = "instruction"
               /\ FieldOf(encode_bytes(ox.s.items[1].inst), ox.line.at, ox.line.bits)
                    = LowBits(ox.imm.value, ox.line.bits)
          ELSE /\ Len(ox.s.errors) = 1
               /\ ox.s.errors[1].error = "immediate_out_of_range"
    /\ ox.phase = "assembled" =>
          IF FitsField(ox.imm.value, ox.line.bits)
          THEN /\ ox.r.ok
               /\ FieldOf(ox.r.value.code, ox.line.at, ox.line.bits)
                    = LowBits(ox.imm.value, ox.line.bits)
          ELSE /\ ~ox.r.ok
               /\ ox.r.error.error = "invalid_immediate"

\* `set r0 #-1` assembled, 0xFFFF in the 16-bit field
NegativeOneInSixteenBits ==
    /\ ox.phase = "assembled"
    /\ ox.line.before = <<"s", "e", "t", " ", "r", "0", " ">>
    /\ ox.imm.text = <<"#", "-", "1">>
    /\ ox.r.ok
    /\ SubSeq(ox.r.value.code, 1, 2) = <<255, 255>>

-----------------------------------------------------------------------------
(* What decode answers for a word.                                         *)

\* the byte is an enumerator of opcode
DefinedOpcode(b) == \E n \in DOMAIN opcode : opcode[n] = b

\* the bytes of a word that hold a register in a format
RegisterBytes(fmt) ==
    CASE fmt \in {"op", "op_imm24"} -> {}
      [] fmt \in {"op_reg", "op_reg_imm16", "op_reg_imm8x2"} -> {3}
      [] fmt \in {"op_reg_reg", "op_reg_reg_imm8"} -> {3, 2}
      [] fmt = "op_reg_reg_reg" -> {3, 2, 1}

\* the instruction variant a format declares
VariantOf(fmt) ==
    CASE fmt = "op" -> "inst_op"
      [] fmt = "op_reg" -> "inst_op_reg"
      [] fmt = "op_imm24" -> "inst_op_imm24"
      [] fmt = "op_reg_imm16" -> "inst_op_reg_imm16"
      [] fmt = "op_reg_reg" -> "inst_op_reg_reg"
      [] fmt = "op_reg_reg_imm8" -> "inst_op_reg_reg_imm8"
      [] fmt = "op_reg_imm8x2" -> "inst_op_reg_imm8x2"
      [] fmt = "op_reg_reg_reg" -> "inst_op_reg_reg_reg"

\* C22: decode answers invalid_opcode exactly for a word whose top byte is no opcode,
\* invalid_register exactly for a word of a defined opcode with a register field of its
\* format above 0x24, and otherwise an instruction of the variant of the opcode's format
DecodeErrorsExactly ==
    cx.phase = "decoded" =>
        LET op == cx.w[4]
            bad_register == \E j \in RegisterBytes(get_format(op)) : cx.w[j] > 36
        IN  /\ (~cx.d.ok /\ cx.d.error = "invalid_opcode") <=> ~DefinedOpcode(op)
            /\ (~cx.d.ok /\ cx.d.error = "invalid_register") <=> (DefinedOpcode(op) /\ bad_register)
            /\ (DefinedOpcode(op) /\ ~bad_register) =>
                  /\ cx.d.ok
                  /\ cx.d.value.variant = VariantOf(get_format(op))
                  /\ cx.d.value.op = op

\* add with the value after sp in its third register field only is refused
ThirdRegisterPastSp ==
    /\ cx.phase = "decoded"
    /\ cx.w[4] = opcode.add
    /\ cx.w[1] = 37 /\ cx.w[2] = 36 /\ cx.w[3] = 0
    /\ cx.d = Err("invalid_register")

-----------------------------------------------------------------------------
(* Shift amounts.                                                          *)

\* the last step executed lsh or ash
ExecutesShift == Executes /\ Executed.op \in {opcode.lsh, opcode.ash}

\* the shift amount of that step: rC as the step found it
ShiftAmount == call.before.regs[Executed.c]

\* s < -32 or s > 32 for the word read as a signed integer s, on its bytes
AmountOutside(c) ==
    IF c[4] >= 128
    THEN ~(c[4] = 255 /\ c[3] = 255 /\ c[2] = 255 /\ c[1] >= 224)
    ELSE ~(c[4] = 0 /\ c[3] = 0 /\ c[2] = 0 /\ c[1] <= 32)

\* C23: a step that executes lsh or ash ends in state error with invalid_instruction and
\* rA as it was exactly when the shift amount is below -32 or above 32; for every other
\* amount, 32 and -32 included, it reports no error and the vm stays running
ShiftRangeChecked ==
    ExecutesShift =>
        /\ ~crashed
        /\ IF AmountOutside(ShiftAmount)
           THEN /\ state = "error"
                /\ on_error => \E e \in ErrorsReported : e.type = "invalid_instruction"
                /\ regs[Executed.a] = call.before.regs[Executed.a]
           ELSE /\ state = "running"
                /\ ErrorsReported = {}

\* ash by -32 was executed and the vm runs on
ShiftByMinusFullWidth ==
    /\ ExecutesShift
    /\ Executed.op = opcode.ash
    /\ ShiftAmount = <<224, 255, 255, 255>>
    /\ state = "running"

-----------------------------------------------------------------------------
(* Division and modulus.                                                   *)

\* the last step executed div or mod
ExecutesDivision == Executes /\ Executed.op \in {opcode.div, opcode.mod}

\* the bytes of q and c whose product has weight 256^k, multiplied and added up
ProductColumn(q, c, k) ==
    LET term(i) == IF k + 2 - i \in 1..4 THEN q[i] * c[k + 2 - i] ELSE 0
    IN  term(1) + term(2) + term(3) + term(4)

\* p is the product of q and c as natural numbers, which is below 2^32: long
\* multiplication byte by byte, with no carry out of the top byte
IsProduct(q, c, p) ==
    LET t0 == ProductColumn(q, c, 0)
        t1 == ProductColumn(q, c, 1) + (t0 \div 256)
        t2 == ProductColumn(q, c, 2) + (t1 \div 256)
        t3 == ProductColumn(q, c, 3) + (t2 \div 256)
    IN  /\ p = <<t0 % 256, t1 % 256, t2 % 256, t3 % 256>>
        /\ t3 \div 256 = 0
        /\ \A k \in 4..6 : ProductColumn(q, c, k) = 0

\* b = q * c + r with r < c, as natural numbers
Divides(b, c, q, r) ==
    \E p \in {Mul32(q, c)} :
        /\ IsProduct(q, c, p)
        /\ ~Lt32(b, p)
        /\ r = Sub32(b, p)
        /\ Lt32(r, c)

\* C24: div and mod with rC = 0 end the step in state error with one division_by_zero
\* reported, rA and the pc as they were; with rC # 0 rA takes the unsigned quotient,
\* respectively remainder, of rB by rC and the vm stays running
DivisionByZeroFaults ==
    ExecutesDivision =>
        LET b == call.before.regs[Executed.b]
            c == call.before.regs[Executed.c]
        IN  /\ ~crashed
            /\ IF c = Zero32
               THEN /\ state = "error"
                    /\ on_error =>
                          /\ Cardinality({j \in DOMAIN call.events :
                                            call.events[j].cb = "on_error"}) = 1
                          /\ \A e \in ErrorsReported : e.type = "division_by_zero"
                    /\ regs[Executed.a] = call.before.regs[Executed.a]
                    /\ regs[reg.pc] = BeforePc
               ELSE /\ state = "running"
                    /\ Executed.op = opcode.div =>
                          \E r \in {Mod32(b, c)} : Divides(b, c, regs[Executed.a], r)
                    /\ Executed.op = opcode.mod =>
                          \E q \in {Div32(b, c)} : Divides(b, c, q, regs[Executed.a])

\* div by zero was executed on a vm with an error handler
DividedByZero ==
    /\ ExecutesDivision
    /\ Executed.op = opcode.div
    /\ call.before.regs[Executed.c] = Zero32
    /\ call.before.regs[Executed.b] # Zero32
    /\ on_error
    /\ state = "error"

-----------------------------------------------------------------------------
(* The console's output buffer.                                            *)

\* call k was a command of the given number
IsCommand(calls, k, n) == calls[k].name = "handle_command" /\ calls[k].command = <<n, 0, 0, 0>>

\* call k emptied the buffer: a clear or a reset
Empties(calls, k) == calls[k].name = "reset" \/ IsCommand(calls, k, 2)

\* the putchar calls since the most recent clear or reset, in call order
PutcharsSinceClear(calls) ==
    LET from == IF \E k \in DOMAIN calls : Empties(calls, k)
                THEN CHOOSE k \in DOMAIN calls :
                        Empties(calls, k) /\ \A j \in DOMAIN calls : Empties(calls, j) => j <= k
                ELSE 0
        is_putchar(c) == c.name = "handle_command" /\ c.command = <<0, 0, 0, 0>>
    IN  SelectSeq(SubSeq(calls, from + 1, Len(calls)), is_putchar)

\* C25: the buffer holds the low bytes of the arguments of the putchar calls made since
\* the most recent clear or reset, in call order; putchar and clear return 1 and every
\* other command returns 0
BufferIsPutcharsSinceClear ==
    ox.phase = "console" =>
        /\ ox.output_ = [k \in DOMAIN PutcharsSinceClear(ox.calls) |->
                            PutcharsSinceClear(ox.calls)[k].argument[1]]
        /\ \A k \in DOMAIN ox.calls :
              ox.calls[k].name = "handle_command" =>
                  ox.calls[k].ret = IF IsCommand(ox.calls, k, 0) \/ IsCommand(ox.calls, k, 2)
                                    THEN <<1, 0, 0, 0>> ELSE <<0, 0, 0, 0>>

\* a putchar, then a command that is none, then a putchar: two characters in the buffer
TwoPutcharsAroundUnknown ==
    /\ ox.phase = "console"
    /\ Len(ox.calls) = 3
    /\ IsCommand(ox.calls, 1, 0)
    /\ ox.calls[2].name = "handle_command" /\ ox.calls[2].command = <<0, 1, 0, 0>>
    /\ IsCommand(ox.calls, 3, 0)
    /\ ox.output_ = <<66, 65>>

-----------------------------------------------------------------------------
(* Labels and the code section.                                            *)

\* the words a line of the sources puts into the code section
WordsOf(line) ==
    IF line \in {<<"n", "o", "p", "\n">>, <<"j", "m", "i", " ", "a", "\n">>} THEN 1
    ELSE IF line = <<"a", "d", "i", " ", "r", "0", " ", "r", "1", " ", "1", "0", "\n">> THEN 2
    ELSE 0

RECURSIVE CodeOffset(_, _)
\* the byte offset in the code section of what line k emits
CodeOffset(lines, k) ==
    IF k <= 1 THEN 0 ELSE CodeOffset(lines, k - 1) + 4 * WordsOf(lines[k - 1])

\* the places where the label a stands right before an instruction
LabelledInstructions(lines) ==
    {k \in DOMAIN lines : k > 1 /\ lines[k - 1] = LabelLine /\ WordsOf(lines[k]) > 0}

\* C26: in an assembled source the label before an instruction resolves to the byte
\* offset of that instruction in the code section, wherever data directives stand: each
\* `jmi a` holds that offset, and so does the entry offset of `%entry: a`
LabelIsOffsetOfItsInstruction ==
    (Assembled /\ ox.r.ok) =>
        \A k \in LabelledInstructions(ox.lines) :
            /\ \A j \in DOMAIN ox.lines :
                  ox.lines[j] = <<"j", "m", "i", " ", "a", "\n">> =>
                      SubSeq(ox.r.value.code, CodeOffset(ox.lines, j) + 1,
                             CodeOffset(ox.lines, j) + 4)
                        = encode_bytes(make_op_imm24(opcode.jmi,
                                                     FromNat(CodeOffset(ox.lines, k))))
            /\ (\E j \in DOMAIN ox.lines :
                    ox.lines[j] = <<"%", "e", "n", "t", "r", "y", ":", " ", "a", "\n">>) =>
                  ox.r.value.entry_offset = FromNat(CodeOffset(ox.lines, k))

-----------------------------------------------------------------------------
(* The assembled object written and read.                                  *)

\* the line is an entry directive
NamesEntry(line) ==
    Len(line) >= 6 /\ SubSeq(line, 1, 6) = <<"%", "e", "n", "t", "r", "y">>

\* C27: the object of every source assemble accepts is read back from its bytes: its
\* entry offset is a multiple of 4 inside the code section, or 0 when the source names
\* no entry label
AssembledObjectReadsBack ==
    ox.phase = "read" =>
        /\ ox.back.ok
        /\ ox.back.value = ox.r.value
        /\ ox.r.value.entry_offset[1] % 4 = 0
        /\ ox.r.value.code # <<>> =>
              IsSmall(ox.r.value.entry_offset)
              /\ Low16(ox.r.value.entry_offset) < Len(ox.r.value.code)
        /\ (\A k \in DOMAIN ox.lines : ~NamesEntry(ox.lines[k]))
              => ox.r.value.entry_offset = Zero32

-----------------------------------------------------------------------------
(* Observer calls and the counters.                                        *)

\* the calls of the given kind the last call of step or run made
CallbacksMade(cb) == Cardinality({j \in DOMAIN call.events : call.events[j].cb = cb})

\* C28: with one observer, over every step and run the pre_execute calls, the
\* post_execute calls, instruction_count and cycle_count grow by the same number, and the
\* two counters are equal; a step that fails at fetch or decode adds nothing, a step that
\* executes an instruction, halting and faulting ones included, adds one to each
CallbacksMatchCounters ==
    /\ instruction_count = cycle_count
    /\ (call.name \in {"step", "run"} /\ ~crashed /\ observers = 1) =>
          /\ CallbacksMade("pre_execute") = instruction_count - call.before.instruction_count
          /\ CallbacksMade("post_execute") = instruction_count - call.before.instruction_count
          /\ cycle_count - call.before.cycle_count
                = instruction_count - call.before.instruction_count
          /\ (call.name = "step" /\ call.before.state = "running") =>
                instruction_count - call.before.instruction_count = IF Executes THEN 1 ELSE 0

\* a step whose instruction faulted while executing, counted and seen by the observer
FaultingStepCounted ==
    /\ Executes /\ ~crashed /\ observers = 1
    /\ state = "error"
    /\ instruction_count = call.before.instruction_count + 1
    /\ CallbacksMade("post_execute") = 1

-----------------------------------------------------------------------------
(* What adi and sbi compute.                                               *)

\* C29: after the expansion of `adi rA rB imm` has run rA is the old rB plus imm mod
\* 2^32, a negative imm taking its magnitude away, and after that of `sbi rA rB imm` the
\* old rB minus imm, for all the registers, at among them, and every imm accepted
PseudoAddsImmediate ==
    (ox.phase = "ran" /\ ox.line.shape = "full") =>
        ox.m.regs[ox.line.a] =
            IF ox.line.mnemonic = <<"a", "d", "i">> THEN Add32(ox.line.old, ox.line.imm.value)
            ELSE Sub32(ox.line.old, ox.line.imm.value)

-----------------------------------------------------------------------------
(* What a pseudo-instruction line leaves in the parse state.               *)

\* the items are the expansion of the line: `set at imm`, then add or sub of rA, rB, at
IsExpansion(items, l) ==
    /\ Len(items) = 2
    /\ items[1] = [kind |-> "instruction",
                   inst |-> make_op_reg_imm16(opcode.set, reg.at, Low16(l.imm.value))]
    /\ items[2] = [kind |-> "instruction",
                   inst |-> make_op_reg_reg_reg(IF l.mnemonic = <<"a", "d", "i">>
                                                THEN opcode.add ELSE opcode.sub,
                                                l.a, l.b, reg.at)]

\* C30: a line whose mnemonic is adi or sbi either appends exactly its two-instruction
\* expansion to the items or records a validation error; written with an operand count
\* other than 3 it is not dropped with no item and no error
PseudoExpandedOrRefused ==
    ox.phase = "processed" =>
        \/ ox.s.errors = <<>> /\ ox.line.shape = "full" /\ IsExpansion(ox.s.items, ox.line)
        \/ ox.s.errors # <<>>

====
